---- MODULE Spec2Model ----
(***************************************************************************)
(* The gesture controllers of v3-watch_SilksongController: the inference   *)
(* and actuation pipeline (collector, predictors, consensus filter, actor  *)
(* and arbitrator) of each controller variant in the repository.            *)
(*                                                                         *)
(* Time is counted in units of 100 ms, except in the hybrid controller's   *)
(* ExecutionArbitrator, whose 0.1 s key hold is resolved in units of 50 ms. *)
(* The keyboard is the abstract press(key)/release(key) interface: `held`  *)
(* is the set of keys that are physically down, `events` the key events of *)
(* the most recent handler call, each with the keys held just before it.   *)
(***************************************************************************)
EXTENDS Integers, Sequences, FiniteSets, TLC

VARIABLES
    ctl,                     \* the controller program this run executes
    now,                     \* time.time()
    pc,                      \* position of the actor (or main loop) in its iteration
    task,                    \* task/thread name -> "running" | "failed" | "stopped"
    stop_event,              \* the shared stop signal
    queues,                  \* queue name -> sequence of queued items
    is_walking,
    facing_direction,
    pressed_keys,            \* the async actor's own record of held direction keys
    last_action_time,        \* action -> recorded time of its last firing (0: never)
    last_walk_confirmation,
    walk_confirmed,          \* handle_locomotion's third result
    latest_gesture,          \* the input of the latest handler call: a gesture,
                             \* an inference outcome or a kind of packet
    fired_at,                \* action -> arrival time of its last occurrence that fired
    held,                    \* keys physically down (the keyboard)
    events,                  \* key events of the latest step
    history,                 \* stream -> consensus history (a deque of maxlen K)
    current_action,          \* current_locomotion / current_action
    buffers,                 \* predictor -> window buffer
    count,                   \* predictor -> prediction_count; in the arbitrator,
                             \* action -> number of key presses so far
    delivered,               \* consumer -> readings it has taken off a sensor queue
    sent,                    \* number of readings the collector has accepted
    accepted,                \* the predictions a predictor stream has accepted, in order
    confirmed,               \* the positions in `accepted` at which the filter confirmed
    config,                  \* the hybrid controller's settings, fixed at startup
    walk_fuel_seconds,
    last_frame_time,
    walking_thread,          \* "None", or the walker thread's position
    last_attack_time,
    last_known_orientation,  \* a quaternion <<x, y, z, w>>
    orientation_history,     \* a deque of <<yaw, pitch, roll>>
    sensor_buffer,           \* number of readings in the ML window buffer
    last_prediction_time,
    issuers,                 \* who issued each key event of `events`
    scenario,                \* number of datagrams received so far while they were
                             \* Z = 20 acceleration readings that followed each
                             \* other at once; -1 after anything else
    watch_connected,         \* SharedState.watch_connected
    last_watch_data_time,    \* SharedState.last_watch_data_time
    last_packet_time,        \* arrival time of the latest well-formed sensor packet
    call,                    \* the latest call of a library function: its name
                             \* and its arguments
    returned,                \* what that call returned
    lock,                    \* ButtonDataCollector.lock: "free" | "held"
    active_recording,        \* "None", or the recording a start event opened
    total_recordings

ctlVars == <<ctl, now, pc, task, stop_event, queues>>
actorVars == <<is_walking, facing_direction, pressed_keys, last_action_time,
               last_walk_confirmation, walk_confirmed, latest_gesture, fired_at>>
kbVars == <<held, events>>
consensusVars == <<history, current_action>>
hybridVars == <<config, walk_fuel_seconds, last_frame_time, walking_thread,
                last_attack_time, last_known_orientation, orientation_history,
                sensor_buffer, last_prediction_time, issuers, scenario>>
dashVars == <<watch_connected, last_watch_data_time, last_packet_time>>
callVars == <<call, returned>>
collectorVars == <<lock, active_recording, total_recordings>>
feedVars == <<buffers, count, delivered, sent, accepted, confirmed, hybridVars,
              dashVars, callVars, collectorVars>>

vars == <<ctlVars, actorVars, kbVars, consensusVars, feedVars>>

----------------------------------------------------------------------------
(* Bounds of the model *)

\* the clock starts here (time.time() at startup is far beyond any cooldown)
StartTime == 6
\* the clock advances at most this far beyond StartTime
MaxTime == 9

----------------------------------------------------------------------------
(* Program constants of the async controller *)

\* 300 ms cooldown per action type, in units of 100 ms
ACTION_COOLDOWN == 3
\* WALK_TIMEOUT = 0.8 s, in units of 100 ms
WALK_TIMEOUT == 8

BINARY_CLASSES == {"walk", "idle"}
MULTI_CLASSES == {"jump", "punch", "turn_left", "turn_right", "idle", "noise"}
Directions == {"left", "right"}
Actions == {"jump", "punch", "attack", "turn"}

\* KEY_MAP["jump"] / KEY_MAP["attack"]: punch is mapped to the attack key
ActionKey(gesture) == IF gesture = "jump" THEN "jump" ELSE "attack"

----------------------------------------------------------------------------
(* The keyboard: press and release, logged with the keys held before *)

KbPress(s, k) ==
    [s EXCEPT !.held = @ \cup {k},
              !.ev = Append(@, [op |-> "press", key |-> k, before |-> s.held])]

KbRelease(s, k) ==
    [s EXCEPT !.held = @ \ {k},
              !.ev = Append(@, [op |-> "release", key |-> k, before |-> s.held])]

\* for direction in ["left", "right"]: if direction in pressed_keys:
\*     keyboard.release(KEY_MAP[direction]); pressed_keys.discard(direction)
ReleaseDirections(s) ==
    LET s1 == IF "left" \in s.pk
              THEN [KbRelease(s, "left") EXCEPT !.pk = @ \ {"left"}] ELSE s
    IN  IF "right" \in s1.pk
        THEN [KbRelease(s1, "right") EXCEPT !.pk = @ \ {"right"}] ELSE s1

\* the drain "only use the latest one": None when the queue is empty
Latest(q) == IF Len(q) = 0 THEN "none" ELSE q[Len(q)]

----------------------------------------------------------------------------
(* The async actor's handlers, as functions of the actor state             *)
(* s = [fd, iw, pk, lat, fa, held, ev, wc] and the time t                  *)

\* HandleTurn with the release of the old direction's key forgotten
HandleTurn_KeepsOldKey(s, gesture) ==
    LET new_direction == IF gesture = "turn_left" THEN "left" ELSE "right"
    IN  IF s.fd = new_direction THEN s
        ELSE LET s1 == [s EXCEPT !.fd = new_direction]
             IN  IF ~s1.iw THEN s1
                 ELSE [KbPress(s1, new_direction) EXCEPT !.pk = @ \cup {new_direction}]

\* turn_left / turn_right: a state change, no cooldown
HandleTurn(s, gesture) ==
    LET new_direction == IF gesture = "turn_left" THEN "left" ELSE "right"
        old_direction == s.fd
    IN  IF s.fd = new_direction THEN s
        ELSE LET s1 == [s EXCEPT !.fd = new_direction]
             IN  IF ~s1.iw THEN s1
                 ELSE LET s2 == IF old_direction \in s1.pk
                                THEN [KbRelease(s1, old_direction)
                                        EXCEPT !.pk = @ \ {old_direction}]
                                ELSE s1
                      IN  [KbPress(s2, new_direction)
                             EXCEPT !.pk = @ \cup {new_direction}]

\* HandleInstant with the stop of walking placed before the cooldown test
HandleInstant_StopsFirst(s, gesture, t) ==
    LET s1 == IF s.iw THEN ReleaseDirections([s EXCEPT !.iw = FALSE]) ELSE s
    IN  IF t - s.lat[gesture] > ACTION_COOLDOWN
        THEN LET s2 == KbRelease(KbPress(s1, ActionKey(gesture)),
                                 ActionKey(gesture))
             IN  [s2 EXCEPT !.lat[gesture] = t, !.fa[gesture] = t]
        ELSE s1

\* jump / punch: cooldown, stop walking, tap the key
HandleInstant(s, gesture, t) ==
    IF t - s.lat[gesture] > ACTION_COOLDOWN
    THEN LET s1 == IF s.iw THEN ReleaseDirections([s EXCEPT !.iw = FALSE]) ELSE s
             s2 == KbRelease(KbPress(s1, ActionKey(gesture)), ActionKey(gesture))
         IN  [s2 EXCEPT !.lat[gesture] = t, !.fa[gesture] = t]
    ELSE s

\* handle_action with noise treated as a stop command
handle_action_NoiseStops(s, gesture, t) ==
    IF gesture = "noise" /\ s.iw THEN ReleaseDirections([s EXCEPT !.iw = FALSE])
    ELSE s
handle_action(s, gesture, t) ==
    IF gesture = "none" THEN s
    ELSE IF gesture = "noise" THEN s
    ELSE IF gesture \in {"turn_left", "turn_right"}
         THEN HandleTurn(s, gesture)
    ELSE IF gesture \in {"jump", "punch"}
         THEN HandleInstant(s, gesture, t)
    ELSE s

\* handle_locomotion with pressed_keys.add(facing_direction) forgotten
handle_locomotion_NoAdd(s, gesture) ==
    IF gesture = "none" THEN [s EXCEPT !.wc = FALSE]
    ELSE IF gesture \in {"noise", "idle"} /\ s.iw
         THEN [ReleaseDirections([s EXCEPT !.iw = FALSE]) EXCEPT !.wc = FALSE]
    ELSE IF gesture = "walk" /\ ~s.iw
         THEN [KbPress([s EXCEPT !.iw = TRUE], s.fd) EXCEPT !.wc = TRUE]
    ELSE IF gesture = "walk" /\ s.iw
         THEN [s EXCEPT !.wc = TRUE]
    ELSE [s EXCEPT !.wc = FALSE]

handle_locomotion(s, gesture) ==
    IF gesture = "none" THEN [s EXCEPT !.wc = FALSE]
    ELSE IF gesture \in {"noise", "idle"} /\ s.iw
         THEN [ReleaseDirections([s EXCEPT !.iw = FALSE]) EXCEPT !.wc = FALSE]
    ELSE IF gesture = "walk" /\ ~s.iw
         THEN [KbPress([s EXCEPT !.iw = TRUE], s.fd)
                 EXCEPT !.pk = @ \cup {s.fd}, !.wc = TRUE]
    ELSE IF gesture = "walk" /\ s.iw
         THEN [s EXCEPT !.wc = TRUE]
    ELSE [s EXCEPT !.wc = FALSE]

\* AUTO-STOP that clears is_walking and leaves the keys down
WalkTimeout_KeepsKeys(s, t, lwc) ==
    IF s.iw /\ (t - lwc) > WALK_TIMEOUT
    THEN [s EXCEPT !.iw = FALSE]
    ELSE s

\* AUTO-STOP: walking but no confirmation for WALK_TIMEOUT
WalkTimeout(s, t, lwc) ==
    IF s.iw /\ (t - lwc) > WALK_TIMEOUT
    THEN ReleaseDirections([s EXCEPT !.iw = FALSE])
    ELSE s

ActorState ==
    [fd |-> facing_direction, iw |-> is_walking, pk |-> pressed_keys,
     lat |-> last_action_time, fa |-> fired_at, held |-> held, ev |-> <<>>,
     wc |-> walk_confirmed]

----------------------------------------------------------------------------
(* The async controller's actor task.  An iteration of its loop calls     *)
(* handle_action, then handle_locomotion, then checks the walk timeout and *)
(* sleeps; the handlers contain no suspension point, so the clock and a    *)
(* cancellation act only at the sleep (pc = "handle_action").              *)

\* what a result queue holds when a handler drains it: nothing, or the
\* predictor's put since the previous iteration (lines 210-211)
Drained(classes) == {<<>>} \cup {<<g>> : g \in classes}
                           \cup {<<g, h>> : g \in classes, h \in classes}

ActorAssign(s) ==
    /\ facing_direction' = s.fd
    /\ is_walking' = s.iw
    /\ pressed_keys' = s.pk
    /\ last_action_time' = s.lat
    /\ fired_at' = s.fa
    /\ held' = s.held
    /\ events' = s.ev
    /\ walk_confirmed' = s.wc

\* facing_direction, is_walking = await handle_action(...)
HandleActionStep(qa) ==
    /\ ctl = "async"
    /\ task["actor"] = "running"
    /\ pc = "handle_action"
    /\ latest_gesture' = Latest(qa)
    /\ ActorAssign(handle_action(ActorState, Latest(qa), now))
    /\ pc' = "handle_locomotion"
    /\ queues' = [queues EXCEPT !["result_action"] = <<>>]
    /\ UNCHANGED <<ctl, now, task, stop_event, last_walk_confirmation,
                   consensusVars, feedVars>>

\* is_walking, facing_direction, walk_confirmed = await handle_locomotion(...)
HandleLocomotionStep(ql) ==
    /\ ctl = "async"
    /\ task["actor"] = "running"
    /\ pc = "handle_locomotion"
    /\ latest_gesture' = Latest(ql)
    /\ ActorAssign(handle_locomotion(ActorState, Latest(ql)))
    /\ pc' = "walk_timeout"
    /\ queues' = [queues EXCEPT !["result_loco"] = <<>>]
    \* history: the label of the latest locomotion confirmation handled
    /\ current_action' = IF Latest(ql) = "none" THEN current_action
                          ELSE Latest(ql)
    /\ UNCHANGED <<ctl, now, task, stop_event, last_walk_confirmation,
                   history, feedVars>>

\* the rest of the iteration: last_walk_confirmation, AUTO-STOP, sleep(0.02)
WalkTimeoutStep ==
    /\ ctl = "async"
    /\ task["actor"] = "running"
    /\ pc = "walk_timeout"
    /\ LET lwc == IF walk_confirmed THEN now ELSE last_walk_confirmation
       IN  /\ last_walk_confirmation' = lwc
           /\ ActorAssign(WalkTimeout(ActorState, now, lwc))
    /\ pc' = "handle_action"
    /\ UNCHANGED <<ctl, now, task, stop_event, queues, latest_gesture,
                   consensusVars, feedVars>>

\* the actor's finally block, run when the task is cancelled at its sleep:
\* for key in pressed_keys: keyboard.release(KEY_MAP.get(key, key))
ActorFinally(h, pk) == h \ pk

\* shutdown: asyncio.run cancels every task that is still running
AsyncShutdown ==
    /\ ctl = "async"
    /\ task["actor"] = "running"
    /\ pc = "handle_action"
    /\ held' = ActorFinally(held, pressed_keys)
    /\ task' = [n \in DOMAIN task |-> "stopped"]
    /\ UNCHANGED <<ctl, now, pc, stop_event, queues, actorVars, events,
                   consensusVars, feedVars>>

\* the clock: it advances while the actor sleeps between two iterations
Tick ==
    /\ ctl = "async"
    /\ pc = "handle_action"
    /\ now < StartTime + MaxTime
    /\ now' = now + 1
    /\ UNCHANGED <<ctl, pc, task, stop_event, queues, actorVars, kbVars,
                   consensusVars, feedVars>>

\* the parts of the state a controller does not have
NoConsensus == history = <<>> /\ current_action = "idle"
NoHybrid ==
    /\ config = <<>> /\ walk_fuel_seconds = 0 /\ last_frame_time = 0
    /\ walking_thread = "None" /\ last_attack_time = 0
    /\ last_known_orientation = <<0, 0, 0, 1>> /\ orientation_history = <<>>
    /\ sensor_buffer = 0 /\ last_prediction_time = 0 /\ issuers = <<>>
    /\ scenario = 0
NoCall == call = [fn |-> "none", args |-> <<>>] /\ returned = <<>>
NoCollector ==
    lock = "free" /\ active_recording = "None" /\ total_recordings = 0
NoDash ==
    watch_connected = FALSE /\ last_watch_data_time = 0 /\ last_packet_time = 0
NoFeed ==
    /\ buffers = <<>> /\ count = <<>> /\ delivered = <<>> /\ sent = 0
    /\ accepted = <<>> /\ confirmed = {}
    /\ NoHybrid /\ NoDash /\ NoCall /\ NoCollector

Init ==
    /\ ctl = "async"
    /\ now = StartTime
    /\ is_walking = FALSE
    /\ facing_direction = "right"
    /\ pressed_keys = {}
    /\ last_action_time = [a \in Actions |-> 0]
    /\ last_walk_confirmation = StartTime
    /\ walk_confirmed = FALSE
    /\ pc = "handle_action"
    /\ latest_gesture = "none"
    /\ held = {}
    /\ events = <<>>
    /\ queues = [q \in {"result_loco", "result_action"} |-> <<>>]
    /\ task = [n \in {"actor"} |-> "running"]
    /\ stop_event = FALSE
    /\ fired_at = [a \in Actions |-> 0]
    /\ NoConsensus
    /\ NoFeed

Next ==
    \/ \E qa \in Drained(MULTI_CLASSES) : HandleActionStep(qa)
    \/ \E ql \in Drained(BINARY_CLASSES) : HandleLocomotionStep(ql)
    \/ WalkTimeoutStep
    \/ AsyncShutdown
    \/ Tick

Spec == Init /\ [][Next]_vars

----------------------------------------------------------------------------
(* The parallel-classifier controller (udp_listener_parallel.py): its      *)
(* actor thread takes one item off each result queue per iteration and     *)
(* keeps the two consensus histories itself.                               *)

\* CONFIDENCE_GATING_COUNT = 3
PAR_CONFIDENCE_GATING_COUNT == 3
\* ACTION_COOLDOWN = 0.5 s, in units of 100 ms
PAR_ACTION_COOLDOWN == 5

BINARY_GESTURES == {"walk", "idle"}
MULTI_GESTURES == {"jump", "punch", "turn_left", "turn_right"}

\* deque(maxlen=n).append(x)
DequeAppend(d, x, n) == IF Len(d) < n THEN Append(d, x) ELSE Append(Tail(d), x)

\* len(history) == n and len(set(history)) == 1
Consensus_LengthOnly(h, n) == Len(h) = n
Consensus(h, n) == Len(h) = n /\ \A i \in 1..Len(h) : h[i] = h[1]

\* the locomotion handling with the right arrow key whatever the facing
ParLocomotion_RightKeyOnly(s, predicted_loco) ==
    IF predicted_loco = "walk"
    THEN IF ~s.iw THEN KbPress([s EXCEPT !.iw = TRUE], "right") ELSE s
    ELSE IF s.iw THEN KbRelease([s EXCEPT !.iw = FALSE], "right") ELSE s
\* === PROCESS LOCOMOTION === on a consensus that changes current_locomotion
ParLocomotion(s, predicted_loco) ==
    IF predicted_loco = "walk"
    THEN IF ~s.iw THEN KbPress([s EXCEPT !.iw = TRUE], s.fd) ELSE s
    ELSE IF s.iw THEN KbRelease([s EXCEPT !.iw = FALSE], s.fd) ELSE s

\* === PROCESS ACTIONS === the execution of a consensus outside its cooldown
ParExecute(s, predicted_action, t) ==
    LET action_type == IF predicted_action \in {"turn_left", "turn_right"}
                       THEN "turn" ELSE predicted_action
        s1 == [s EXCEPT !.lat[action_type] = t, !.fa[action_type] = t]
    IN  IF predicted_action \in {"jump", "punch"}
        THEN KbRelease(KbPress(s1, ActionKey(predicted_action)),
                       ActionKey(predicted_action))
        ELSE IF predicted_action = "turn_left"
        THEN LET s2 == [s1 EXCEPT !.fd = "left"]
             IN  IF s2.iw THEN KbPress(KbRelease(s2, "right"), "left") ELSE s2
        ELSE LET s2 == [s1 EXCEPT !.fd = "right"]
             IN  IF s2.iw THEN KbPress(KbRelease(s2, "left"), "right") ELSE s2

\* the cooldown test: current_time - last_action_time[action_type] < ACTION_COOLDOWN
ParOnCooldown(s, predicted_action, t) ==
    LET action_type == IF predicted_action \in {"turn_left", "turn_right"}
                       THEN "turn" ELSE predicted_action
    IN  t - s.lat[action_type] < PAR_ACTION_COOLDOWN

\* loco_action = locomotion_queue.get_nowait() and its handling
ParLocoStep(item) ==
    /\ ctl = "parallel"
    /\ task["actor"] = "running"
    /\ pc = "loco"
    /\ ~stop_event
    /\ latest_gesture' = item
    /\ IF item = "empty"
       THEN /\ ActorAssign(ActorState)
            /\ UNCHANGED consensusVars
       ELSE LET h == DequeAppend(history["loco"], item, PAR_CONFIDENCE_GATING_COUNT)
                change == Consensus(h, PAR_CONFIDENCE_GATING_COUNT)
                          /\ h[1] # current_action
            IN  /\ history' = [history EXCEPT !["loco"] = h]
                /\ current_action' = IF change THEN h[1] ELSE current_action
                /\ ActorAssign(IF change THEN ParLocomotion(ActorState, h[1])
                               ELSE ActorState)
    /\ pc' = "action"
    /\ UNCHANGED <<ctl, now, task, stop_event, queues, last_walk_confirmation,
                   feedVars>>

\* action_result = action_queue.get_nowait() and its handling, then sleep(0.01)
ParActionStep(item) ==
    /\ ctl = "parallel"
    /\ task["actor"] = "running"
    /\ pc = "action"
    /\ latest_gesture' = item
    /\ IF item = "empty"
       THEN /\ ActorAssign(ActorState)
            /\ UNCHANGED history
       ELSE LET h == DequeAppend(history["action"], item, PAR_CONFIDENCE_GATING_COUNT)
            IN  IF ~Consensus(h, PAR_CONFIDENCE_GATING_COUNT)
                   \/ ParOnCooldown(ActorState, h[1], now)
                THEN /\ history' = [history EXCEPT !["action"] = h]
                     /\ ActorAssign(ActorState)
                ELSE /\ history' = [history EXCEPT !["action"] = <<>>]
                     /\ ActorAssign(ParExecute(ActorState, h[1], now))
    /\ pc' = "loco"
    /\ UNCHANGED <<ctl, now, task, stop_event, queues, last_walk_confirmation,
                   current_action, feedVars>>

\* the actor's loop ending without its cleanup
ParCleanup_KeepsKeys(s) == s
\* the loop ends on the stop signal: if is_walking, release left and right
ParCleanup(s) ==
    IF s.iw THEN KbRelease(KbRelease(s, "left"), "right") ELSE s

ParActorExit ==
    /\ ctl = "parallel"
    /\ task["actor"] = "running"
    /\ pc = "loco"
    /\ stop_event
    /\ ActorAssign(ParCleanup(ActorState))
    /\ task' = [task EXCEPT !["actor"] = "stopped"]
    /\ UNCHANGED <<ctl, now, pc, stop_event, queues, last_walk_confirmation,
                   latest_gesture, consensusVars, feedVars>>

\* main: except KeyboardInterrupt: stop_event.set()
ParInterrupt ==
    /\ ctl = "parallel"
    /\ ~stop_event
    /\ stop_event' = TRUE
    /\ UNCHANGED <<ctl, now, pc, task, queues, actorVars, kbVars, consensusVars,
                   feedVars>>

InitParallel ==
    /\ ctl = "parallel"
    /\ now = StartTime
    /\ pc = "loco"
    /\ task = [n \in {"actor"} |-> "running"]
    /\ stop_event = FALSE
    /\ queues = <<>>
    /\ is_walking = FALSE
    /\ facing_direction = "right"
    /\ pressed_keys = {}
    /\ last_action_time = [a \in Actions |-> 0]
    /\ last_walk_confirmation = 0
    /\ walk_confirmed = FALSE
    /\ latest_gesture = "none"
    /\ fired_at = [a \in Actions |-> 0]
    /\ held = {}
    /\ events = <<>>
    /\ history = [stream \in {"loco", "action"} |-> <<>>]
    /\ current_action = "idle"
    /\ NoFeed

NextParallel ==
    \/ \E item \in {"empty"} \cup BINARY_GESTURES : ParLocoStep(item)
    \/ \E item \in {"empty"} \cup MULTI_GESTURES : ParActionStep(item)
    \/ ParActorExit
    \/ ParInterrupt

SpecParallel == InitParallel /\ [][NextParallel]_vars

\* the two actors that handle turns: the async actor and the parallel
\* controller's actor_thread
InitActors == Init \/ InitParallel
NextActors == Next \/ NextParallel
SpecActors == InitActors /\ [][NextActors]_vars

----------------------------------------------------------------------------
(* The two-stage SVM controller (phase_vi_svm_controller.py): a collector  *)
(* thread fills sensor_buffer, a predictor thread predicts every 50 ms,    *)
(* keeps prediction_history and calls execute_action; main waits for       *)
(* Ctrl+C.                                                                 *)

\* CONFIDENCE_THRESHOLD = 5: consecutive matching predictions required
SVM_CONFIDENCE_THRESHOLD == 5
\* WINDOW_SIZE_SAMPLES (15 in the source) and sensor_buffer's maxlen (100)
SvmWindow == 2
SvmBufferMax == 3

\* what predict_action can return: "walk" from stage 1, a class of stage 2,
\* and "idle" on an exception or without models
SVM_LABELS == {"walk", "jump", "punch", "turn_left", "turn_right", "idle"}
OneShot == {"jump", "punch", "turn_left", "turn_right", "turn"}

\* execute_action(action); s.cur is current_action
execute_action(s, action) ==
    IF action = s.cur THEN s
    ELSE LET s1 == IF s.cur = "walk"
                   THEN KbRelease(KbRelease([s EXCEPT !.iw = FALSE], "left"), "right")
                   ELSE s
             s2 == [s1 EXCEPT !.cur = action]
             s3 == IF action = "walk" THEN KbPress([s2 EXCEPT !.iw = TRUE], "right")
                   ELSE IF action = "jump" THEN KbRelease(KbPress(s2, "jump"), "jump")
                   ELSE IF action = "punch"
                        THEN KbRelease(KbPress(s2, "attack"), "attack")
                   ELSE IF action = "turn_left"
                        THEN KbRelease(KbPress(s2, "left"), "left")
                   ELSE IF action = "turn_right"
                        THEN KbRelease(KbPress(s2, "right"), "right")
                   ELSE s2
         IN  IF action \in {"jump", "punch", "turn_left", "turn_right"}
             THEN [s3 EXCEPT !.cur = "idle"] ELSE s3

SvmState ==
    [cur |-> current_action, iw |-> is_walking, held |-> held, ev |-> <<>>]

\* collector_thread: a packet with a sensor field is appended to sensor_buffer;
\* anything else (a button event, invalid JSON, any other exception) is skipped
SvmCollect(packet) ==
    /\ ctl = "svm"
    /\ task["collector"] = "running"
    /\ ~stop_event
    /\ IF packet = "sensor"
       THEN /\ buffers' = [buffers EXCEPT !["svm"] = DequeAppend(@, "r", SvmBufferMax)]
       ELSE UNCHANGED buffers
    /\ UNCHANGED <<ctlVars, actorVars, kbVars, consensusVars, count, delivered,
                   sent, accepted, confirmed,
                   hybridVars, dashVars, callVars, collectorVars>>

\* predictor_thread: one iteration with a full window and the prediction `action`
SvmPredict(action) ==
    /\ ctl = "svm"
    /\ task["predictor"] = "running"
    /\ ~stop_event
    /\ Len(buffers["svm"]) >= SvmWindow
    /\ LET h == DequeAppend(history["svm"], action, SVM_CONFIDENCE_THRESHOLD)
           s == IF Consensus(h, SVM_CONFIDENCE_THRESHOLD)
                THEN execute_action(SvmState, action) ELSE SvmState
       IN  /\ history' = [history EXCEPT !["svm"] = h]
           /\ current_action' = s.cur
           /\ is_walking' = s.iw
           /\ held' = s.held
           /\ events' = s.ev
    /\ latest_gesture' = action
    /\ UNCHANGED <<ctlVars, facing_direction, pressed_keys, last_action_time,
                   last_walk_confirmation, walk_confirmed, fired_at, feedVars>>

\* main: except KeyboardInterrupt: running = False
SvmInterrupt ==
    /\ ctl = "svm"
    /\ ~stop_event
    /\ stop_event' = TRUE
    /\ UNCHANGED <<ctl, now, pc, task, queues, actorVars, kbVars, consensusVars,
                   feedVars>>

\* a thread leaves its `while running` loop; main joins both and returns
SvmThreadExit(n) ==
    /\ ctl = "svm"
    /\ stop_event
    /\ task[n] = "running"
    /\ task' = [task EXCEPT ![n] = "stopped"]
    /\ UNCHANGED <<ctl, now, pc, stop_event, queues, actorVars, kbVars,
                   consensusVars, feedVars>>

InitSvm ==
    /\ ctl = "svm"
    /\ now = StartTime
    /\ pc = "main"
    /\ task = [n \in {"collector", "predictor"} |-> "running"]
    /\ stop_event = FALSE
    /\ queues = <<>>
    /\ is_walking = FALSE
    /\ facing_direction = "right"
    /\ pressed_keys = {}
    /\ last_action_time = [a \in Actions |-> 0]
    /\ last_walk_confirmation = 0
    /\ walk_confirmed = FALSE
    /\ latest_gesture = "none"
    /\ fired_at = [a \in Actions |-> 0]
    /\ held = {}
    /\ events = <<>>
    /\ history = [stream \in {"svm"} |-> <<>>]
    /\ current_action = "idle"
    /\ buffers = [b \in {"svm"} |-> <<>>]
    /\ count = <<>>
    /\ delivered = <<>>
    /\ sent = 0
    /\ accepted = <<>>
    /\ confirmed = {}
    /\ NoHybrid /\ NoDash /\ NoCall /\ NoCollector

NextSvm ==
    \/ \E packet \in {"sensor", "button", "invalid_json", "not_an_object"} :
          SvmCollect(packet)
    \/ \E action \in SVM_LABELS : SvmPredict(action)
    \/ SvmInterrupt
    \/ \E n \in {"collector", "predictor"} : SvmThreadExit(n)

SpecSvm == InitSvm /\ [][NextSvm]_vars

----------------------------------------------------------------------------
(* The hybrid controller's ExecutionArbitrator (src/udp_listener.py): the  *)
(* single-threaded main loop calls arbitrator.execute(action, source) for  *)
(* a reflex jump/attack or an ML turn.  Time here is in units of 50 ms.    *)

\* REFLEX_COOLDOWN: 0.3 s
REFLEX_COOLDOWN == 6
\* time.sleep(0.1) between press and release
KEY_HOLD == 2

ArbActions == {"jump", "attack", "turn"}

\* ExecutionArbitrator.can_execute with `t` the value of time.time()
can_execute_NoCooldown(lat, action, t) == TRUE
can_execute(lat, action, t) ==
    t - lat[action] >= REFLEX_COOLDOWN

\* execute with one time stamp shared by every action
ArbExecute_StampsAll(action) ==
    /\ ctl = "arbitrator"
    /\ pc = "main_loop"
    /\ latest_gesture' = action
    /\ IF ~can_execute(last_action_time, action, now)
       THEN /\ pc' = "returned_false"
            /\ events' = <<>>
            /\ UNCHANGED <<now, facing_direction, last_action_time, fired_at, count>>
       ELSE /\ pc' = "returned_true"
            /\ IF action \in {"jump", "attack"}
               THEN /\ events' = << [op |-> "press", key |-> action, before |-> held],
                                    [op |-> "release", key |-> action,
                                     before |-> held \cup {action}] >>
                    /\ now' = now + KEY_HOLD
                    /\ count' = [count EXCEPT ![action] = @ + 1]
                    /\ UNCHANGED facing_direction
               ELSE /\ facing_direction' = IF facing_direction = "right"
                                           THEN "left" ELSE "right"
                    /\ events' = <<>>
                    /\ UNCHANGED <<now, count>>
            /\ last_action_time' = [b \in ArbActions |-> now']
            /\ fired_at' = [fired_at EXCEPT ![action] = now]
    /\ UNCHANGED <<ctl, task, stop_event, queues, is_walking, pressed_keys,
                   last_walk_confirmation, walk_confirmed, held, consensusVars,
                   buffers, delivered, sent, accepted, confirmed,
                   hybridVars, dashVars, callVars, collectorVars>>

\* ExecutionArbitrator.execute(action, source), called by the main loop
ArbExecute(action) ==
    /\ ctl = "arbitrator"
    /\ pc = "main_loop"
    /\ latest_gesture' = action
    /\ IF ~can_execute(last_action_time, action, now)
       THEN /\ pc' = "returned_false"
            /\ events' = <<>>
            /\ UNCHANGED <<now, facing_direction, last_action_time, fired_at, count>>
       ELSE /\ pc' = "returned_true"
            /\ IF action \in {"jump", "attack"}
               THEN /\ events' = << [op |-> "press", key |-> action, before |-> held],
                                    [op |-> "release", key |-> action,
                                     before |-> held \cup {action}] >>
                    /\ now' = now + KEY_HOLD
                    /\ count' = [count EXCEPT ![action] = @ + 1]
                    /\ UNCHANGED facing_direction
               ELSE /\ facing_direction' = IF facing_direction = "right"
                                           THEN "left" ELSE "right"
                    /\ events' = <<>>
                    /\ UNCHANGED <<now, count>>
            /\ last_action_time' = [last_action_time EXCEPT ![action] = now']
            /\ fired_at' = [fired_at EXCEPT ![action] = now]
    /\ UNCHANGED <<ctl, task, stop_event, queues, is_walking, pressed_keys,
                   last_walk_confirmation, walk_confirmed, held, consensusVars,
                   buffers, delivered, sent, accepted, confirmed,
                   hybridVars, dashVars, callVars, collectorVars>>

\* execute returns to the main loop
ArbReturn ==
    /\ ctl = "arbitrator"
    /\ pc \in {"returned_true", "returned_false"}
    /\ pc' = "main_loop"
    /\ UNCHANGED <<ctl, now, task, stop_event, queues, actorVars, kbVars,
                   consensusVars, feedVars>>

\* the clock advances while the main loop waits for the next packet
ArbTick ==
    /\ ctl = "arbitrator"
    /\ pc = "main_loop"
    /\ now < StartTime + MaxTime
    /\ now' = now + 1
    /\ UNCHANGED <<ctl, pc, task, stop_event, queues, actorVars, kbVars,
                   consensusVars, feedVars>>

InitArbitrator ==
    /\ ctl = "arbitrator"
    /\ now = StartTime
    /\ pc = "main_loop"
    /\ task = [n \in {"main"} |-> "running"]
    /\ stop_event = FALSE
    /\ queues = <<>>
    /\ is_walking = FALSE
    /\ facing_direction = "right"
    /\ pressed_keys = {}
    /\ last_action_time = [a \in ArbActions |-> 0]
    /\ last_walk_confirmation = 0
    /\ walk_confirmed = FALSE
    /\ latest_gesture = "none"
    /\ fired_at = [a \in ArbActions |-> 0]
    /\ held = {}
    /\ events = <<>>
    /\ history = <<>>
    /\ current_action = "idle"
    /\ buffers = <<>>
    /\ count = [a \in {"jump", "attack"} |-> 0]
    /\ delivered = <<>>
    /\ sent = 0
    /\ accepted = <<>>
    /\ confirmed = {}
    /\ NoHybrid /\ NoDash /\ NoCall /\ NoCollector

NextArbitrator ==
    \/ \E action \in ArbActions : ArbExecute(action)
    \/ ArbReturn
    \/ ArbTick

SpecArbitrator == InitArbitrator /\ [][NextArbitrator]_vars

\* the actuators that apply a per-action cooldown to jump and punch/attack:
\* the async actor and the ExecutionArbitrator
InitCooldown == Init \/ InitArbitrator
NextCooldown == Next \/ NextArbitrator
SpecCooldown == InitCooldown /\ [][NextCooldown]_vars

----------------------------------------------------------------------------
(* The async controller's predictor coroutine, in its "action" instance     *)
(* (MULTI_CLASSES, result_action), with the tasks main_async gathers.  The  *)
(* reading it awaits is supplied by the distributor through sensor_action.  *)

\* CONSENSUS_WINDOW = 2
CONSENSUS_WINDOW == 2
\* ML_CONFIDENCE_THRESHOLD = 0.50, in percent
ML_CONFIDENCE_THRESHOLD == 50
\* window_size (75 for the action predictor)
PredWindow == 2
\* maxsize of result_action (10 in the source)
ResultQueueMax == 2
\* the predictor is followed for this many accepted predictions
MaxAccepted == 5

Confidences == {49, 50}
AsyncTasks == {"distributor", "predictor_loco", "predictor_action", "actor",
               "dashboard"}

\* predictor: a reading arrives while the window is not yet full after it
PredictorFill ==
    /\ ctl = "predictor"
    /\ task["predictor_action"] = "running"
    /\ Len(buffers["action"]) + 1 < PredWindow
    /\ buffers' = [buffers EXCEPT !["action"] = DequeAppend(@, "r", PredWindow)]
    /\ UNCHANGED <<ctlVars, actorVars, kbVars, consensusVars, count, delivered,
                   sent, accepted, confirmed,
                   hybridVars, dashVars, callVars, collectorVars>>

\* predictor: a reading arrives, the window is full and inference runs;
\* raises = TRUE when feature extraction, scaling or predict_proba raises
PredictorInfer(raises, gesture, confidence) ==
    /\ ctl = "predictor"
    /\ task["predictor_action"] = "running"
    /\ Len(buffers["action"]) + 1 >= PredWindow
    /\ Len(accepted) < MaxAccepted
    /\ buffers' = [buffers EXCEPT !["action"] = DequeAppend(@, "r", PredWindow)]
    /\ IF raises
       THEN \* only asyncio.TimeoutError is caught: the coroutine ends
            /\ task' = [task EXCEPT !["predictor_action"] = "failed"]
            /\ latest_gesture' = "exception"
            /\ UNCHANGED <<queues, history, accepted, confirmed>>
       ELSE IF confidence >= ML_CONFIDENCE_THRESHOLD
       THEN LET h == DequeAppend(history["action"], gesture, CONSENSUS_WINDOW)
            IN  /\ latest_gesture' = gesture
                /\ accepted' = Append(accepted, gesture)
                /\ IF Consensus(h, CONSENSUS_WINDOW)
                   THEN /\ queues' =
                              IF Len(queues["result_action"]) < ResultQueueMax
                              THEN [queues EXCEPT !["result_action"] =
                                                      Append(@, gesture)]
                              ELSE queues
                        /\ history' = [history EXCEPT !["action"] = <<>>]
                        /\ confirmed' = confirmed \cup {Len(accepted')}
                   ELSE /\ history' = [history EXCEPT !["action"] = h]
                        /\ UNCHANGED <<queues, confirmed>>
                /\ UNCHANGED task
       ELSE /\ latest_gesture' = "rejected"
            /\ UNCHANGED <<task, queues, history, accepted, confirmed>>
    /\ UNCHANGED <<ctl, now, pc, stop_event, is_walking, facing_direction,
                   pressed_keys, last_action_time, last_walk_confirmation,
                   walk_confirmed, fired_at, kbVars, current_action, count,
                   delivered, sent, hybridVars, dashVars, callVars, collectorVars>>

\* actor: while not result_action_queue.empty(): get_nowait()
ActorDrain ==
    /\ ctl = "predictor"
    /\ task["actor"] = "running"
    /\ queues["result_action"] # <<>>
    /\ queues' = [queues EXCEPT !["result_action"] = <<>>]
    /\ UNCHANGED <<ctl, now, pc, task, stop_event, actorVars, kbVars,
                   consensusVars, feedVars>>

\* main_async: asyncio.gather re-raises the first exception of a task, and
\* asyncio.run cancels the tasks that are left; the actor's finally runs
GatherPropagates ==
    /\ ctl \in {"predictor", "distributor"}
    /\ \E n \in DOMAIN task : task[n] = "failed"
    /\ \E n \in DOMAIN task : task[n] = "running"
    /\ task' = [n \in DOMAIN task |-> IF task[n] = "running" THEN "stopped"
                                      ELSE task[n]]
    /\ held' = ActorFinally(held, pressed_keys)
    /\ pressed_keys' = {}
    /\ UNCHANGED <<ctl, now, pc, stop_event, queues, is_walking, facing_direction,
                   last_action_time, last_walk_confirmation, walk_confirmed,
                   latest_gesture, fired_at, events, consensusVars, feedVars>>

InitPredictor ==
    /\ ctl = "predictor"
    /\ now = StartTime
    /\ pc = "gather"
    /\ task = [n \in AsyncTasks |-> "running"]
    /\ stop_event = FALSE
    /\ queues = [q \in {"result_action"} |-> <<>>]
    /\ is_walking = FALSE
    /\ facing_direction = "right"
    /\ pressed_keys = {}
    /\ last_action_time = [a \in Actions |-> 0]
    /\ last_walk_confirmation = 0
    /\ walk_confirmed = FALSE
    /\ latest_gesture = "none"
    /\ fired_at = [a \in Actions |-> 0]
    /\ held = {}
    /\ events = <<>>
    /\ history = [stream \in {"action"} |-> <<>>]
    /\ current_action = "idle"
    /\ buffers = [b \in {"action"} |-> <<>>]
    /\ count = <<>>
    /\ delivered = <<>>
    /\ sent = 0
    /\ accepted = <<>>
    /\ confirmed = {}
    /\ NoHybrid /\ NoDash /\ NoCall /\ NoCollector

NextPredictor ==
    \/ PredictorFill
    \/ \E gesture \in MULTI_CLASSES, confidence \in Confidences :
          PredictorInfer(FALSE, gesture, confidence)
    \/ PredictorInfer(TRUE, "none", 0)
    \/ ActorDrain
    \/ GatherPropagates

SpecPredictor == InitPredictor /\ [][NextPredictor]_vars

----------------------------------------------------------------------------
(* The async controller's distributor coroutine with the two sensor queues  *)
(* it feeds and the predictors' gets.  A reading is identified by its       *)
(* number in the order of acceptance.                                       *)

\* maxsize of sensor_loco (500 in the source) and sensor_action (200)
SensorLocoMax == 2
SensorActionMax == 1
\* the feed is followed for this many accepted readings
MaxReadings == 3

SensorQueueMax(q) == IF q = "sensor_loco" THEN SensorLocoMax ELSE SensorActionMax

\* what a received datagram can be
PacketKinds == {"linear_acceleration", "gyroscope", "other_sensor",
                "values_missing", "values_wrong_type", "invalid_json",
                "undecodable", "not_an_object"}
Malformed == {"values_missing", "values_wrong_type", "invalid_json",
              "undecodable", "not_an_object"}

\* FanOut with a full queue giving up its oldest reading for the new one
FanOut_DropsOldest(qs, reading) ==
    [q \in DOMAIN qs |-> IF Len(qs[q]) < SensorQueueMax(q)
                         THEN Append(qs[q], reading)
                         ELSE Append(Tail(qs[q]), reading)]

\* for q in sensor_queues: if q.qsize() < q.maxsize: await q.put(reading)
FanOut(qs, reading) ==
    [q \in DOMAIN qs |-> IF Len(qs[q]) < SensorQueueMax(q)
                         THEN Append(qs[q], reading) ELSE qs[q]]

\* distributor: one datagram received
Distribute(packet) ==
    /\ ctl = "distributor"
    /\ task["distributor"] = "running"
    /\ latest_gesture' = packet
    /\ IF packet \in {"linear_acceleration", "gyroscope", "values_missing"}
       THEN \* msg.get("values", {}) is a dict: a combined reading is queued
            /\ sent < MaxReadings
            /\ sent' = sent + 1
            /\ queues' = FanOut(queues, sent')
            \* state.last_watch_data_time = now
            /\ last_watch_data_time' = now
            /\ last_packet_time' = now
            /\ UNCHANGED task
       ELSE IF packet \in {"other_sensor", "invalid_json"}
       THEN \* `continue`, directly or in except (JSONDecodeError, KeyError)
            /\ last_packet_time' = IF packet = "other_sensor" THEN now
                                   ELSE last_packet_time
            /\ UNCHANGED <<task, queues, sent, last_watch_data_time>>
       ELSE \* UnicodeDecodeError from decode(), AttributeError from .get():
            \* neither is caught, the coroutine ends
            /\ task' = [task EXCEPT !["distributor"] = "failed"]
            /\ UNCHANGED <<queues, sent, last_watch_data_time, last_packet_time>>
    /\ UNCHANGED <<ctl, now, pc, stop_event, is_walking, facing_direction,
                   pressed_keys, last_action_time, last_walk_confirmation,
                   walk_confirmed, fired_at, kbVars, consensusVars, buffers,
                   count, delivered, accepted, confirmed,
                   hybridVars, watch_connected, callVars, collectorVars>>

\* the dashboard's timeout on the sensor feed (2.0 s) in units of 100 ms
WATCH_TIMEOUT == 20
\* the distributor's clock starts a timeout after the zero of the time stamps
DashStart == StartTime + WATCH_TIMEOUT
\* the step of the distributor's clock and the length of the time followed
DashTick == 5
DashMaxTime == 30

\* dashboard: the first statement of an iteration of its loop
DashboardRefresh ==
    /\ ctl = "distributor"
    /\ task["dashboard"] = "running"
    /\ watch_connected' = (now - last_watch_data_time < WATCH_TIMEOUT)
    /\ UNCHANGED <<ctlVars, actorVars, kbVars, consensusVars, buffers, count,
                   delivered, sent, accepted, confirmed, hybridVars,
                   last_watch_data_time, last_packet_time, callVars, collectorVars>>

\* time passes between two datagrams or two refreshes of the dashboard
DistributorTick ==
    /\ ctl = "distributor"
    /\ now < DashStart + DashMaxTime
    /\ now' = now + DashTick
    /\ UNCHANGED <<ctl, pc, task, stop_event, queues, actorVars, kbVars,
                   consensusVars, feedVars>>

\* predictor: reading = await sensor_queue.get(); buffer.append(reading)
PredictorGet(q) ==
    /\ ctl = "distributor"
    /\ task[IF q = "sensor_loco" THEN "predictor_loco" ELSE "predictor_action"]
          = "running"
    /\ queues[q] # <<>>
    /\ queues' = [queues EXCEPT ![q] = Tail(@)]
    /\ buffers' = [buffers EXCEPT ![q] = DequeAppend(@, Head(queues[q]), PredWindow)]
    /\ delivered' = [delivered EXCEPT ![q] = @ \cup {Head(queues[q])}]
    /\ UNCHANGED <<ctl, now, pc, task, stop_event, actorVars, kbVars,
                   consensusVars, count, sent, accepted, confirmed,
                   hybridVars, dashVars, callVars, collectorVars>>

InitDistributor ==
    /\ ctl = "distributor"
    /\ now = DashStart
    /\ pc = "gather"
    /\ task = [n \in AsyncTasks |-> "running"]
    /\ stop_event = FALSE
    /\ queues = [q \in {"sensor_loco", "sensor_action"} |-> <<>>]
    /\ is_walking = FALSE
    /\ facing_direction = "right"
    /\ pressed_keys = {}
    /\ last_action_time = [a \in Actions |-> 0]
    /\ last_walk_confirmation = 0
    /\ walk_confirmed = FALSE
    /\ latest_gesture = "none"
    /\ fired_at = [a \in Actions |-> 0]
    /\ held = {}
    /\ events = <<>>
    /\ history = <<>>
    /\ current_action = "idle"
    /\ buffers = [q \in {"sensor_loco", "sensor_action"} |-> <<>>]
    /\ count = <<>>
    /\ delivered = [q \in {"sensor_loco", "sensor_action"} |-> {}]
    /\ sent = 0
    /\ accepted = <<>>
    /\ confirmed = {}
    /\ NoHybrid /\ NoDash /\ NoCall /\ NoCollector

NextDistributor ==
    \/ \E packet \in PacketKinds : Distribute(packet)
    \/ \E q \in {"sensor_loco", "sensor_action"} : PredictorGet(q)
    \/ GatherPropagates
    \/ DashboardRefresh
    \/ DistributorTick

SpecDistributor == InitDistributor /\ [][NextDistributor]_vars

----------------------------------------------------------------------------
(* The parallel-classifier controller's feed: collector_thread puts every   *)
(* reading on the one sensor_queue, and locomotion_predictor_thread and     *)
(* action_predictor_thread both get from that queue.                        *)

\* maxsize of sensor_queue (1000 in the source)
ParSensorMax == 2
\* BINARY_WINDOW_SAMPLES (250) and MULTI_WINDOW_SAMPLES (75)
ParBinaryWindow == 3
ParMultiWindow == 2
\* maxsize of locomotion_queue and action_queue (100)
ParResultMax == 1
\* a predictor predicts on every 10th (locomotion) or 5th (action) iteration
LOCO_PREDICT_EVERY == 10
ACTION_PREDICT_EVERY == 5

ParPredictors == {"locomotion", "action"}
ParWindow(p) == IF p = "locomotion" THEN ParBinaryWindow ELSE ParMultiWindow
\* int(BINARY_WINDOW_SAMPLES * 0.6), int(MULTI_WINDOW_SAMPLES * 0.7)
ParFill(p) == IF p = "locomotion" THEN (ParBinaryWindow * 6) \div 10
              ELSE (ParMultiWindow * 7) \div 10
ParEvery(p) == IF p = "locomotion" THEN LOCO_PREDICT_EVERY ELSE ACTION_PREDICT_EVERY
ParGestures(p) == IF p = "locomotion" THEN BINARY_GESTURES ELSE MULTI_GESTURES
ParResultQueue(p) == IF p = "locomotion" THEN "locomotion_queue" ELSE "action_queue"

\* collector_thread: one datagram received
ParCollect(packet) ==
    /\ ctl = "parallel_feed"
    /\ task["collector"] = "running"
    /\ ~stop_event
    /\ latest_gesture' = packet
    /\ IF packet \in {"linear_acceleration", "gyroscope", "other_sensor",
                      "values_missing"}
       THEN \* a sensor_reading is built and put; a full queue drops it
            /\ sent < MaxReadings
            /\ sent' = sent + 1
            /\ queues' = IF Len(queues["sensor_queue"]) < ParSensorMax
                         THEN [queues EXCEPT !["sensor_queue"] = Append(@, sent')]
                         ELSE queues
            /\ UNCHANGED task
       ELSE IF packet = "invalid_json"
       THEN UNCHANGED <<task, queues, sent>>
       ELSE \* any other exception: printed, then `break`
            /\ task' = [task EXCEPT !["collector"] = "stopped"]
            /\ UNCHANGED <<queues, sent>>
    /\ UNCHANGED <<ctl, now, pc, stop_event, is_walking, facing_direction,
                   pressed_keys, last_action_time, last_walk_confirmation,
                   walk_confirmed, fired_at, kbVars, consensusVars, buffers,
                   count, delivered, accepted, confirmed,
                   hybridVars, dashVars, callVars, collectorVars>>

\* one iteration of a predictor thread; `result` is the gesture it predicts
\* with enough confidence, or "none" (low confidence, or an exception, which
\* the thread swallows)
ParPredictorIteration(p, result) ==
    /\ ctl = "parallel_feed"
    /\ task[p] = "running"
    /\ ~stop_event
    /\ LET got == queues["sensor_queue"] # <<>>
           buf == IF got THEN DequeAppend(buffers[p], Head(queues["sensor_queue"]),
                                          ParWindow(p))
                  ELSE buffers[p]
           q1 == IF got THEN [queues EXCEPT !["sensor_queue"] = Tail(@)] ELSE queues
           predicts == count[p] + 1 >= ParEvery(p) /\ Len(buf) >= ParFill(p)
           rq == ParResultQueue(p)
       IN  /\ buffers' = [buffers EXCEPT ![p] = buf]
           /\ delivered' = IF got
                           THEN [delivered EXCEPT ![p] =
                                                    @ \cup {Head(queues["sensor_queue"])}]
                           ELSE delivered
           /\ count' = [count EXCEPT ![p] = IF @ + 1 < ParEvery(p) THEN @ + 1 ELSE 0]
           /\ predicts \/ result = "none"
           /\ queues' = IF predicts /\ result # "none" /\ Len(q1[rq]) < ParResultMax
                        THEN [q1 EXCEPT ![rq] = Append(@, result)]
                        ELSE q1
    /\ UNCHANGED <<ctl, now, pc, task, stop_event, actorVars, kbVars,
                   consensusVars, sent, accepted, confirmed,
                   hybridVars, dashVars, callVars, collectorVars>>

\* actor_thread: locomotion_queue.get_nowait() / action_queue.get_nowait()
ParActorGet(rq) ==
    /\ ctl = "parallel_feed"
    /\ task["actor"] = "running"
    /\ ~stop_event
    /\ queues[rq] # <<>>
    /\ queues' = [queues EXCEPT ![rq] = Tail(@)]
    /\ UNCHANGED <<ctl, now, pc, task, stop_event, actorVars, kbVars,
                   consensusVars, feedVars>>

InitParallelFeed ==
    /\ ctl = "parallel_feed"
    /\ now = StartTime
    /\ pc = "main"
    /\ task = [n \in {"collector", "locomotion", "action", "actor"} |-> "running"]
    /\ stop_event = FALSE
    /\ queues = [q \in {"sensor_queue", "locomotion_queue", "action_queue"} |-> <<>>]
    /\ is_walking = FALSE
    /\ facing_direction = "right"
    /\ pressed_keys = {}
    /\ last_action_time = [a \in Actions |-> 0]
    /\ last_walk_confirmation = 0
    /\ walk_confirmed = FALSE
    /\ latest_gesture = "none"
    /\ fired_at = [a \in Actions |-> 0]
    /\ held = {}
    /\ events = <<>>
    /\ history = <<>>
    /\ current_action = "idle"
    /\ buffers = [p \in ParPredictors |-> <<>>]
    /\ count = [p \in ParPredictors |-> 0]
    /\ delivered = [p \in ParPredictors |-> {}]
    /\ sent = 0
    /\ accepted = <<>>
    /\ confirmed = {}
    /\ NoHybrid /\ NoDash /\ NoCall /\ NoCollector

NextParallelFeed ==
    \/ \E packet \in PacketKinds : ParCollect(packet)
    \/ \E p \in ParPredictors :
          \E result \in ParGestures(p) \cup {"none"} : ParPredictorIteration(p, result)
    \/ \E rq \in {"locomotion_queue", "action_queue"} : ParActorGet(rq)

SpecParallelFeed == InitParallelFeed /\ [][NextParallelFeed]_vars

----------------------------------------------------------------------------
(* The parallel controller's shutdown: the collector, the two predictors   *)
(* and the actor run `while not stop_event.is_set()`, every blocking call  *)
(* in their loops has a timeout, main sets the signal on Ctrl+C and joins  *)
(* each thread for at most 2 s; the threads are not daemon threads, so the *)
(* interpreter exits only when they have all ended.                        *)

ParFeedThreads == {"collector", "locomotion", "action"}
\* the gesture the action predictor delivers in this specification: the one
\* that moves the held direction key
ShutdownGestures == {"turn_left"}

\* a feed thread passes `while not stop_event.is_set()` and starts an iteration
ParThreadEnter(n) ==
    /\ ctl = "parallel"
    /\ n \in DOMAIN task
    /\ task[n] = "running"
    /\ ~stop_event
    /\ task' = [task EXCEPT ![n] = "iterating"]
    /\ UNCHANGED <<ctl, now, pc, stop_event, queues, actorVars, kbVars,
                   consensusVars, feedVars>>

\* the iteration ends: recvfrom / get return or time out, inference returns
\* or raises; broke = TRUE when the collector's `except Exception: break` runs
ParThreadBody(n, broke) ==
    /\ ctl = "parallel"
    /\ n \in DOMAIN task
    /\ task[n] = "iterating"
    /\ broke => n = "collector"
    /\ task' = [task EXCEPT ![n] = IF broke THEN "stopped" ELSE "running"]
    /\ UNCHANGED <<ctl, now, pc, stop_event, queues, actorVars, kbVars,
                   consensusVars, feedVars>>

\* the loop condition fails on the stop signal and the thread function returns
ParThreadExit(n) ==
    /\ ctl = "parallel"
    /\ n \in DOMAIN task
    /\ task[n] = "running"
    /\ stop_event
    /\ task' = [task EXCEPT ![n] = "stopped"]
    /\ UNCHANGED <<ctl, now, pc, stop_event, queues, actorVars, kbVars,
                   consensusVars, feedVars>>

\* main after stop_event.set(): the four join(timeout=2) and the finally block
ParMainReturns ==
    /\ ctl = "parallel"
    /\ "main" \in DOMAIN task
    /\ task["main"] = "running"
    /\ stop_event
    /\ task' = [task EXCEPT !["main"] = "returned"]
    /\ UNCHANGED <<ctl, now, pc, stop_event, queues, actorVars, kbVars,
                   consensusVars, feedVars>>

\* the interpreter exits once main has returned and every thread has ended
ParProcessExit ==
    /\ ctl = "parallel"
    /\ "main" \in DOMAIN task
    /\ task["main"] = "returned"
    /\ \A n \in ParFeedThreads \cup {"actor"} : task[n] = "stopped"
    /\ task' = [task EXCEPT !["main"] = "exited"]
    /\ UNCHANGED <<ctl, now, pc, stop_event, queues, actorVars, kbVars,
                   consensusVars, feedVars>>

InitShutdown ==
    /\ ctl = "parallel"
    /\ now = StartTime
    /\ pc = "loco"
    /\ task = [n \in ParFeedThreads \cup {"actor", "main"} |-> "running"]
    /\ stop_event = FALSE
    /\ queues = <<>>
    /\ is_walking = FALSE
    /\ facing_direction = "right"
    /\ pressed_keys = {}
    /\ last_action_time = [a \in Actions |-> 0]
    /\ last_walk_confirmation = 0
    /\ walk_confirmed = FALSE
    /\ latest_gesture = "none"
    /\ fired_at = [a \in Actions |-> 0]
    /\ held = {}
    /\ events = <<>>
    /\ history = [stream \in {"loco", "action"} |-> <<>>]
    /\ current_action = "idle"
    /\ NoFeed

ShutdownActorStep ==
    \/ \E item \in {"empty"} \cup BINARY_GESTURES : ParLocoStep(item)
    \/ \E item \in {"empty"} \cup ShutdownGestures : ParActionStep(item)
    \/ ParActorExit

ShutdownFeedStep(n) ==
    \/ ParThreadEnter(n)
    \/ \E broke \in BOOLEAN : ParThreadBody(n, broke)
    \/ ParThreadExit(n)

NextShutdown ==
    \/ ShutdownActorStep
    \/ \E n \in ParFeedThreads : ShutdownFeedStep(n)
    \/ ParInterrupt
    \/ ParMainReturns
    \/ ParProcessExit

\* every thread that can run is eventually scheduled
SpecShutdown ==
    /\ InitShutdown /\ [][NextShutdown]_vars
    /\ WF_vars(ShutdownActorStep)
    /\ \A n \in ParFeedThreads : WF_vars(ShutdownFeedStep(n))
    /\ WF_vars(ParMainReturns)
    /\ WF_vars(ParProcessExit)

----------------------------------------------------------------------------
(* The hybrid controller (src/udp_listener.py): one loop that receives a   *)
(* datagram, runs the walk-fuel logic, the reflex layer, the ML layer and  *)
(* the per-sensor threshold logic, and a walker thread that holds the      *)
(* direction key.  Time is in units of 50 ms.                              *)
(* m = [t, ct, lft, fuel, wt, iw, fd, held, ev, by, lat, lastatk, ori, oh, *)
(*      buf, lpt, cnt] is the loop's state while it handles one datagram:  *)
(* t is time.time(), ct the loop's current_time                            *)

\* settings read from config.json (thresholds section)
FUEL_ADDED_PER_STEP == 2
MAX_FUEL_CAPACITY == 4
PUNCH_THRESHOLD == 12
JUMP_THRESHOLD == 15
TURN_THRESHOLD == 90
\* walk_fuel_seconds = 0.2 after a sharp turn
TURN_FUEL == 4
STABILITY_THRESHOLD_DEGREES == 50
\* ATTACK_Z_STABILITY_FACTOR = 0.7, as the fraction 7 / 10
ATTACK_Z_STABILITY_NUM == 7
ATTACK_Z_STABILITY_DEN == 10
ATTACK_COOLDOWN_SEC == 6
REFLEX_JUMP_THRESHOLD == 15
REFLEX_ATTACK_THRESHOLD == 12
REFLEX_STABILITY_THRESHOLD == 5
PREDICTION_INTERVAL == 10
\* the ML window: a prediction needs HybWindow readings (100 in the code) in a
\* buffer of at most HybBufferMax (125)
HybWindow == 2
HybBufferMax == 3
\* maxlen of orientation_history (25)
OrientationMax == 2
\* time.time() when the loop starts: beyond every cooldown and interval, as
\* last_prediction_time and last_attack_time start at 0
HybStart == StartTime + PREDICTION_INTERVAL
\* the loop receives datagrams up to this far beyond HybStart
HybMaxTime == 6
\* the clock advances by this much while the loop waits (100 ms)
HybTick == KEY_HOLD
\* the number of datagrams of the five-packet scenario
ScenarioLen == 5

Abs(x) == IF x < 0 THEN -x ELSE x
Flip(d) == IF d = "right" THEN "left" ELSE "right"

rotate_vector_by_quaternion(vector, quat) ==
    LET q_vec == <<quat[1], quat[2], quat[3]>>
        q_scalar == quat[4]
        a == << 2 * (q_vec[2] * vector[3] - q_vec[3] * vector[2]),
                2 * (q_vec[3] * vector[1] - q_vec[1] * vector[3]),
                2 * (q_vec[1] * vector[2] - q_vec[2] * vector[1]) >>
        b == << q_scalar * a[1], q_scalar * a[2], q_scalar * a[3] >>
        c == << q_vec[2] * a[3] - q_vec[3] * a[2],
                q_vec[3] * a[1] - q_vec[1] * a[3],
                q_vec[1] * a[2] - q_vec[2] * a[1] >>
    IN  << vector[1] + b[1] + c[1],
           vector[2] + b[2] + c[2],
           vector[3] + b[3] + c[3] >>

\* math.degrees(math.atan2(s, c)) where one of s, c is zero
Atan2Deg(sn, cs) ==
    IF sn = 0 THEN (IF cs < 0 THEN 180 ELSE 0)
    ELSE IF sn > 0 THEN 90 ELSE -90

\* <<yaw, pitch, roll>> of a quaternion with integer components
quaternion_to_euler(q) ==
    LET x == q[1]  y == q[2]  z == q[3]  w == q[4]
        roll == Atan2Deg(2 * (w * x + y * z), 1 - 2 * (x * x + y * y))
        sinp == 2 * (w * y - z * x)
        pitch == IF Abs(sinp) >= 1 THEN (IF sinp > 0 THEN 90 ELSE -90) ELSE 0
        yaw == Atan2Deg(2 * (w * z + x * y), 1 - 2 * (y * y + z * z))
    IN  <<yaw, pitch, roll>>

\* detect_reflex_actions with the stability test on Z instead of |Z|
detect_reflex_actions_SignedZ(accel_values, rotation_quaternion) ==
    LET world_accel == rotate_vector_by_quaternion(accel_values,
                                                   rotation_quaternion)
        forward_sq == world_accel[1] * world_accel[1]
                          + world_accel[2] * world_accel[2]
    IN  IF world_accel[3] > REFLEX_JUMP_THRESHOLD THEN "jump"
        ELSE IF /\ forward_sq > REFLEX_ATTACK_THRESHOLD * REFLEX_ATTACK_THRESHOLD
                /\ world_accel[3] < REFLEX_STABILITY_THRESHOLD
        THEN "attack"
        ELSE "None"

\* detect_reflex_actions: 'jump', 'attack' or None
detect_reflex_actions(accel_values, rotation_quaternion) ==
    LET world_accel == rotate_vector_by_quaternion(accel_values,
                                                   rotation_quaternion)
        forward_sq == world_accel[1] * world_accel[1]
                          + world_accel[2] * world_accel[2]
    IN  IF world_accel[3] > REFLEX_JUMP_THRESHOLD THEN "jump"
        ELSE IF /\ forward_sq > REFLEX_ATTACK_THRESHOLD * REFLEX_ATTACK_THRESHOLD
                /\ Abs(world_accel[3]) < REFLEX_STABILITY_THRESHOLD
        THEN "attack"
        ELSE "None"

\* a key event of the hybrid controller, with its issuer
HybPress(m, k, who) == [KbPress(m, k) EXCEPT !.by = Append(@, who),
                                             !.cnt[k] = @ + 1]
HybRelease(m, k, who) == [KbRelease(m, k) EXCEPT !.by = Append(@, who)]

\* keyboard.press(key); time.sleep(0.1); keyboard.release(key)
HybTap(m, k, who) ==
    [HybRelease(HybPress(m, k, who), k, who) EXCEPT !.t = @ + KEY_HOLD]

\* arbitrator.execute(action, source) inside the loop
HybArbExecute(m, action) ==
    IF ~can_execute(m.lat, action, m.t) THEN m
    ELSE LET m1 == IF action \in {"jump", "attack"}
                   THEN HybTap(m, action, "arbitrator")
                   ELSE [m EXCEPT !.fd = Flip(@)]
         IN  [m1 EXCEPT !.lat[action] = m1.t]

\* walker_thread_func up to stop_walking_event.wait()
WalkerStart(m) ==
    [HybPress(m, m.fd, "walker") EXCEPT !.iw = TRUE, !.wt = m.fd]

\* stop_walking_event.set(); walking_thread.join(): the walker releases the
\* key it pressed and clears is_walking
WalkerJoin(m) ==
    LET m1 == IF m.wt = "started" THEN WalkerStart(m) ELSE m
    IN  [HybRelease(m1, m1.wt, "walker") EXCEPT !.iw = FALSE, !.wt = "None"]

\* the walk-fuel logic at the top of the loop; walker_first: the thread
\* started here runs before the rest of the iteration
HybFuel(m, walker_first) ==
    LET delta_time == m.t - m.lft
        fuel == IF m.fuel - delta_time > 0 THEN m.fuel - delta_time ELSE 0
        m1 == [m EXCEPT !.ct = m.t, !.lft = m.t, !.fuel = fuel]
    IN  IF fuel > 0 /\ ~m1.iw /\ m1.wt = "None"
        THEN LET m2 == [m1 EXCEPT !.wt = "started"]
             IN  IF walker_first THEN WalkerStart(m2) ELSE m2
        ELSE IF fuel <= 0 /\ m1.iw
        THEN WalkerJoin(m1)
        ELSE m1

\* the reflex layer
HybReflex(m, cfg, packet) ==
    IF cfg.hybrid /\ packet.sensor = "linear_acceleration"
    THEN LET reflex_action ==
                 detect_reflex_actions(packet.values, m.ori)
         IN  IF reflex_action # "None"
             THEN HybArbExecute(m, reflex_action) ELSE m
    ELSE m

\* the ML layer; outcome is the prediction, "low_confidence" or "raises"
HybML(m, cfg, outcome) ==
    IF ~cfg.ml THEN m
    ELSE LET n == IF m.buf < HybBufferMax THEN m.buf + 1 ELSE m.buf
             m1 == [m EXCEPT !.buf = n]
         IN  IF n >= HybWindow /\ m.ct - m.lpt > PREDICTION_INTERVAL
             THEN IF outcome = "raises" THEN m1
                  ELSE LET m2 ==
                             IF outcome = "low_confidence" THEN m1
                             ELSE IF cfg.hybrid
                             THEN IF outcome = "turn"
                                  THEN HybArbExecute(m1, "turn") ELSE m1
                             ELSE IF outcome = "jump"
                             THEN HybTap(m1, "jump", "ml")
                             ELSE IF outcome = "punch"
                             THEN HybTap(m1, "attack", "ml")
                             ELSE IF outcome = "turn"
                             THEN [m1 EXCEPT !.fd = Flip(@)]
                             ELSE m1
                       IN  [m2 EXCEPT !.lpt = m.ct]
             ELSE m1

\* sensor_type == "rotation_vector"
HybRotation(m, vals) ==
    LET oh == DequeAppend(m.oh, quaternion_to_euler(vals), OrientationMax)
        m1 == [m EXCEPT !.ori = vals, !.oh = oh]
        oldest == oh[1]
        current == oh[Len(oh)]
        yaw_diff == 180 - Abs(Abs(current[1] - oldest[1]) - 180)
        pitch_diff == Abs(current[2] - oldest[2])
        roll_diff == Abs(current[3] - oldest[3])
        is_stable == /\ pitch_diff < STABILITY_THRESHOLD_DEGREES
                     /\ roll_diff < STABILITY_THRESHOLD_DEGREES
    IN  IF Len(oh) = OrientationMax /\ yaw_diff > TURN_THRESHOLD /\ is_stable
        THEN [m1 EXCEPT !.fd = Flip(@), !.fuel = TURN_FUEL, !.oh = <<>>]
        ELSE m1

\* sensor_type == "step_detector"
HybStep(m) ==
    LET new_fuel == m.fuel + FUEL_ADDED_PER_STEP
    IN  [m EXCEPT !.fuel = IF new_fuel < MAX_FUEL_CAPACITY
                           THEN new_fuel ELSE MAX_FUEL_CAPACITY]

\* sensor_type == "linear_acceleration": the threshold logic
HybAcceleration(m, vals) ==
    LET world == rotate_vector_by_quaternion(vals, m.ori)
        xy_sq == world[1] * world[1] + world[2] * world[2]
        world_z == world[3]
        current_time == m.t
    IN  IF world_z > JUMP_THRESHOLD
        THEN HybTap(m, "jump", "main_loop")
        ELSE IF /\ xy_sq > PUNCH_THRESHOLD * PUNCH_THRESHOLD
                /\ ATTACK_Z_STABILITY_DEN * Abs(world_z)
                       < PUNCH_THRESHOLD * ATTACK_Z_STABILITY_NUM
                /\ current_time - m.lastatk > ATTACK_COOLDOWN_SEC
        THEN [HybTap(m, "attack", "main_loop") EXCEPT !.lastatk = current_time]
        ELSE m

\* the body of the loop's try block for a datagram that parses
HybParsed(m, cfg, packet, outcome) ==
    LET m1 == HybML(HybReflex(m, cfg, packet), cfg, outcome)
    IN  IF packet.sensor = "rotation_vector"
        THEN IF Len(packet.values) = 0
             THEN \* parsed_json["values"] raises KeyError
                  m1
             ELSE IF Len(packet.values) < 4
             THEN \* last_known_orientation.update(vals), then
                  \* quaternion_to_euler(vals) raises KeyError
                  [m1 EXCEPT !.ori = [i \in 1..4 |->
                                        IF i <= Len(packet.values)
                                        THEN packet.values[i] ELSE m1.ori[i]]]
             ELSE HybRotation(m1, packet.values)
        ELSE IF packet.sensor = "step_detector" THEN HybStep(m1)
        ELSE IF packet.sensor = "linear_acceleration"
        THEN HybAcceleration(m1, packet.values)
        ELSE m1

\* one iteration of the loop
HybIteration(m, cfg, packet, outcome, walker_first) ==
    LET m1 == HybFuel(m, walker_first)
    IN  IF packet.sensor = "not_json" THEN m1
        ELSE HybParsed(m1, cfg, packet, outcome)

JumpPacket == [sensor |-> "linear_acceleration", values |-> <<0, 0, 20>>]
\* the identity and a half turn about the vertical axis
Quaternions == { <<0, 0, 0, 1>>, <<0, 0, 1, 0>> }
\* datagrams the loop rejects: bytes that are not JSON, a rotation_vector
\* message without "values", and one whose values hold x only
MalformedPackets ==
    {[sensor |-> "not_json", values |-> <<>>],
     [sensor |-> "rotation_vector", values |-> <<>>],
     [sensor |-> "rotation_vector", values |-> <<1>>]}
HybridPackets ==
    {[sensor |-> "linear_acceleration", values |-> v] :
         v \in { <<0, 0, 20>>, <<14, 0, 0>> }}
    \cup {[sensor |-> "rotation_vector", values |-> q] : q \in Quaternions}
    \cup {[sensor |-> k, values |-> <<>>] :
              k \in {"step_detector", "gyroscope"}}
    \cup MalformedPackets
MLOutcomes == {"jump", "punch", "turn", "noise", "low_confidence", "raises"}

HybState == [t |-> now, ct |-> now, lft |-> last_frame_time,
             fuel |-> walk_fuel_seconds, wt |-> walking_thread,
             iw |-> is_walking, fd |-> facing_direction, held |-> held,
             ev |-> <<>>, by |-> <<>>, lat |-> last_action_time,
             lastatk |-> last_attack_time, ori |-> last_known_orientation,
             oh |-> orientation_history, buf |-> sensor_buffer,
             lpt |-> last_prediction_time, cnt |-> count]

\* sc is the next value of `scenario`; `count` counts the presses of each key
\* for as long as the run is the five-packet scenario
HybAssign(m, sc) ==
    /\ scenario' = sc
    /\ count' = IF sc >= 0 THEN m.cnt ELSE [k \in DOMAIN m.cnt |-> 0]
    /\ now' = m.t
    /\ last_frame_time' = m.lft
    /\ walk_fuel_seconds' = m.fuel
    /\ walking_thread' = m.wt
    /\ is_walking' = m.iw
    /\ facing_direction' = m.fd
    /\ held' = m.held
    /\ events' = m.ev
    /\ issuers' = m.by
    /\ last_action_time' = m.lat
    /\ last_attack_time' = m.lastatk
    /\ last_known_orientation' = m.ori
    /\ orientation_history' = m.oh
    /\ sensor_buffer' = m.buf
    /\ last_prediction_time' = m.lpt

HybRest == <<ctl, task, stop_event, queues, pressed_keys,
             last_walk_confirmation, walk_confirmed, fired_at, consensusVars,
             buffers, delivered, sent, accepted, confirmed, config,
             dashVars, callVars, collectorVars>>

\* sock.recvfrom returns a datagram and the loop handles it
HybridPacket(packet, outcome, walker_first) ==
    /\ ctl = "hybrid"
    /\ pc = "recvfrom"
    \* beyond the horizon only the five-packet scenario is followed
    /\ now <= HybStart + HybMaxTime \/ (scenario >= 0 /\ packet = JumpPacket)
    /\ HybAssign(HybIteration(HybState, config, packet, outcome, walker_first),
                 IF scenario >= 0 /\ scenario < ScenarioLen
                    /\ packet = JumpPacket
                 THEN scenario + 1 ELSE -1)
    /\ latest_gesture' = packet.sensor
    /\ UNCHANGED <<pc, HybRest>>

\* the walker thread runs while the loop waits in recvfrom
WalkerRuns ==
    /\ ctl = "hybrid"
    /\ pc = "recvfrom"
    /\ walking_thread = "started"
    /\ HybAssign(WalkerStart(HybState), scenario)
    /\ UNCHANGED <<pc, latest_gesture, HybRest>>

\* KeyboardInterrupt in recvfrom, then the finally block
HybridInterrupt ==
    /\ ctl = "hybrid"
    /\ pc = "recvfrom"
    /\ pc' = "exited"
    /\ LET m == HybState
       IN  HybAssign(IF m.iw /\ m.wt # "None" THEN WalkerJoin(m) ELSE m,
                     scenario)
    /\ UNCHANGED <<latest_gesture, HybRest>>

\* startup, line 371: load_ml_models() catches FileNotFoundError only and
\* then returns no model, ML_ENABLED = ml_model is not None
HybridLoadModels(outcome) ==
    /\ ctl = "hybrid"
    /\ pc = "load_ml_models"
    /\ task' = [task EXCEPT !["load_ml_models"] = outcome]
    /\ config' = [config EXCEPT !.ml = (outcome = "loaded")]
    /\ pc' = IF outcome = "other_error" THEN "exited" ELSE "bind"
    /\ UNCHANGED <<ctl, now, stop_event, queues, actorVars, kbVars,
                   consensusVars,
                   buffers, count, delivered, sent, accepted, confirmed,
                   walk_fuel_seconds, last_frame_time, walking_thread,
                   last_attack_time, last_known_orientation,
                   orientation_history, sensor_buffer, last_prediction_time,
                   issuers, scenario, dashVars, callVars, collectorVars>>

\* startup, line 435: sock.bind; its OSError is not caught
HybridBind(bound) ==
    /\ ctl = "hybrid"
    /\ pc = "bind"
    /\ task' = [task EXCEPT !["bind"] = IF bound THEN "bound" ELSE "OSError"]
    /\ pc' = IF bound THEN "recvfrom" ELSE "exited"
    /\ UNCHANGED <<ctl, now, stop_event, queues, actorVars, kbVars,
                   consensusVars, feedVars>>

\* the clock advances while the loop waits in recvfrom; a wait between two
\* datagrams ends the five-packet scenario, whose datagrams are 20 ms apart
HybridTick ==
    /\ ctl = "hybrid"
    /\ pc = "recvfrom"
    /\ now < HybStart + HybMaxTime
    /\ HybAssign([HybState EXCEPT !.t = now + HybTick],
                 IF scenario > 0 THEN -1 ELSE scenario)
    /\ UNCHANGED <<pc, latest_gesture, HybRest>>

InitHybrid ==
    /\ ctl = "hybrid"
    /\ now = HybStart
    /\ pc = "load_ml_models"
    /\ task = [n \in {"load_ml_models", "bind"} |-> "pending"]
    /\ stop_event = FALSE
    /\ queues = <<>>
    /\ is_walking = FALSE
    /\ facing_direction = "right"
    /\ pressed_keys = {}
    /\ last_action_time = [a \in ArbActions |-> 0]
    /\ last_walk_confirmation = 0
    /\ walk_confirmed = FALSE
    /\ latest_gesture = "none"
    /\ fired_at = <<>>
    /\ held = {}
    /\ events = <<>>
    /\ NoConsensus
    /\ buffers = <<>>
    /\ count = [k \in {"jump", "attack", "left", "right"} |-> 0]
    /\ delivered = <<>>
    /\ sent = 0
    /\ accepted = <<>>
    /\ confirmed = {}
    /\ config \in [hybrid : BOOLEAN, ml : {FALSE}]
    /\ walk_fuel_seconds = 0
    /\ last_frame_time = HybStart
    /\ walking_thread = "None"
    /\ last_attack_time = 0
    /\ last_known_orientation = <<0, 0, 0, 1>>
    /\ orientation_history = <<>>
    /\ sensor_buffer = 0
    /\ last_prediction_time = 0
    /\ issuers = <<>>
    /\ scenario = 0
    /\ NoDash /\ NoCall /\ NoCollector

\* the inputs an iteration consults: the ML outcome when a prediction runs,
\* the walker's scheduling when the thread is started
HybPredicts(packet) ==
    /\ config.ml
    /\ packet.sensor # "not_json"
    /\ sensor_buffer + 1 >= HybWindow
    /\ now - last_prediction_time > PREDICTION_INTERVAL
HybStartsWalker ==
    /\ walk_fuel_seconds - (now - last_frame_time) > 0
    /\ ~is_walking
    /\ walking_thread = "None"

NextHybrid ==
    \/ \E packet \in HybridPackets :
          \E outcome \in IF HybPredicts(packet) THEN MLOutcomes ELSE {"none"},
             walker_first \in IF HybStartsWalker THEN BOOLEAN ELSE {FALSE} :
              HybridPacket(packet, outcome, walker_first)
    \/ \E outcome \in {"loaded", "FileNotFoundError", "other_error"} :
           HybridLoadModels(outcome)
    \/ \E bound \in BOOLEAN : HybridBind(bound)
    \/ WalkerRuns
    \/ HybridInterrupt
    \/ HybridTick

SpecHybrid == InitHybrid /\ [][NextHybrid]_vars

----------------------------------------------------------------------------
(* The library functions of the controllers (detect_reflex_actions, the     *)
(* feature extractor, the sensor-row merger), called on bounded arguments.  *)
(* A behaviour is one call: the arguments are there from the start and the  *)
(* action of the function called records what it returns.                   *)

libraryRest == <<ctl, now, task, stop_event, queues, actorVars, kbVars,
                 consensusVars, buffers, count, delivered, sent, accepted,
                 confirmed, hybridVars, dashVars, call, collectorVars>>

\* acceleration components on both sides of the reflex thresholds
ReflexValues == {-20, -5, 0, 4, 5, 12, 13, 15, 16}
\* rotation quaternions <<x, y, z, w>>; <<>> is a dict that lacks a key
ReflexQuaternions == {<<0, 0, 0, 1>>, <<1, 0, 0, 0>>, <<0, 0, 1, 0>>, <<>>}

ReflexCalls ==
    {[fn |-> "detect_reflex_actions", args |-> <<v, q>>] :
        v \in ReflexValues \X ReflexValues \X ReflexValues,
        q \in ReflexQuaternions}

\* detect_reflex_actions(accel_values, rotation_quaternion)[0]
CallReflex ==
    /\ ctl = "library"
    /\ pc = "call"
    /\ call.fn = "detect_reflex_actions"
    /\ pc' = "returned"
    /\ returned' = IF Len(call.args[2]) < 4
                   THEN \* except (KeyError, TypeError, ZeroDivisionError)
                        "None"
                   ELSE detect_reflex_actions(call.args[1], call.args[2])
    /\ UNCHANGED libraryRest

\* names of features, a feature's values, and the longest feature-name list
FeatureNames == {"accel_x_mean", "gyro_x_mean", "rot_w_mean"}
MaxFeatureValue == 2
MaxNameList == 3

\* the feature dicts an extractor can hand over: a value for some of the names
FeatureDicts ==
    UNION {[S -> 1..MaxFeatureValue] : S \in SUBSET FeatureNames}
\* feature_names as loaded from feature_names.pkl: a list without repeats
NameLists ==
    {l \in UNION {[1..n -> FeatureNames] : n \in 0..MaxNameList} :
        \A i, j \in 1..Len(l) : l[i] = l[j] => i = j}

\* pd.DataFrame([features]).fillna(0).reindex(columns=feature_names,
\* fill_value=0), on features without NaN
prepare_feature_vector(features, feature_names) ==
    [i \in 1..Len(feature_names) |->
        IF feature_names[i] \in DOMAIN features
        THEN features[feature_names[i]] ELSE 0]

VectorCalls ==
    {[fn |-> f, args |-> <<d, l>>] :
        f \in {"prepare_feature_vector", "predictor", "predict_action"},
        d \in FeatureDicts, l \in NameLists}

\* feature_extractor.prepare_feature_vector(features, feature_names)
CallPrepare ==
    /\ ctl = "library"
    /\ pc = "call"
    /\ call.fn = "prepare_feature_vector"
    /\ pc' = "returned"
    /\ returned' = [raised |-> "none",
                    vector |-> prepare_feature_vector(call.args[1], call.args[2])]
    /\ UNCHANGED libraryRest

\* the async predictor: np.array([features_dict.get(name, 0) for name in
\* feature_names])
CallFeaturesVec ==
    /\ ctl = "library"
    /\ pc = "call"
    /\ call.fn = "predictor"
    /\ pc' = "returned"
    /\ LET features_dict == call.args[1]
           feature_names == call.args[2]
       IN  returned' =
             [raised |-> "none",
              vector |-> [i \in 1..Len(feature_names) |->
                            IF feature_names[i] \in DOMAIN features_dict
                            THEN features_dict[feature_names[i]] ELSE 0]]
    /\ UNCHANGED libraryRest

\* phase_vi predict_action: features_df = features_df[feature_names], inside
\* the try whose except returns ("idle", 0.0)
CallPredictAction ==
    /\ ctl = "library"
    /\ pc = "call"
    /\ call.fn = "predict_action"
    /\ pc' = "returned"
    /\ LET features_dict == call.args[1]
           feature_names == call.args[2]
       IN  returned' =
             IF \A i \in 1..Len(feature_names) :
                    feature_names[i] \in DOMAIN features_dict
             THEN [raised |-> "none",
                   vector |-> [i \in 1..Len(feature_names) |->
                                 features_dict[feature_names[i]]]]
             ELSE \* a label that is no column: KeyError, no inference
                  [raised |-> "KeyError", vector |-> <<>>]
    /\ UNCHANGED libraryRest

\* the longest window tried (100 rows in the hybrid controller, 15 in phase_iv)
MaxWindow == 4
\* the kinds of rows a window holds; a row is modelled by its 'sensor' field
RowKinds == {"linear_acceleration", "gyroscope", "rotation_vector",
             "step_detector"}
\* the windows the controllers extract from: they are never empty
Windows == UNION {[1..n -> RowKinds] : n \in 1..MaxWindow}
\* len(window_df[window_df['sensor'] == kind])
Rows(window, kind) ==
    Cardinality({i \in 1..Len(window) : window[i] = kind})

\* one feature of each group extract_window_features computes, in the order
\* of the trained feature-name list
TrainedNames ==
    <<"accel_x_max", "accel_x_fft_max", "world_accel_x_max",
      "accel_magnitude_max", "gyro_x_max_abs", "gyro_x_fft_max",
      "gyro_magnitude_max", "rot_x_range">>

\* extract_window_features with the FFT features computed from any sample
extract_window_features_FftOfAny(window_df) ==
    LET accel == Rows(window_df, "linear_acceleration")
        gyro == Rows(window_df, "gyroscope")
        rot == Rows(window_df, "rotation_vector")
        accel_keys ==
            IF accel > 0
            THEN {"accel_x_max", "accel_magnitude_max"}
                   \cup {"accel_x_fft_max"}
                   \cup (IF rot > 0 THEN {"world_accel_x_max"} ELSE {})
            ELSE {}
        gyro_keys ==
            IF gyro > 0
            THEN {"gyro_x_max_abs", "gyro_magnitude_max"}
                   \cup {"gyro_x_fft_max"}
            ELSE {}
        rot_keys == IF rot > 0 THEN {"rot_x_range"} ELSE {}
        of == [k \in accel_keys \cup gyro_keys \cup rot_keys |->
                 IF k \in accel_keys THEN accel
                 ELSE IF k \in gyro_keys THEN gyro ELSE rot]
    IN  of

\* extract_window_features: the dict of the features it computes.  A value
\* is the number of samples the statistic was taken from, never 0.
extract_window_features(window_df) ==
    LET accel == Rows(window_df, "linear_acceleration")
        gyro == Rows(window_df, "gyroscope")
        rot == Rows(window_df, "rotation_vector")
        accel_keys ==
            IF accel > 0
            THEN {"accel_x_max", "accel_magnitude_max"}
                   \cup (IF accel > 2 THEN {"accel_x_fft_max"} ELSE {})
                   \cup (IF rot > 0 THEN {"world_accel_x_max"} ELSE {})
            ELSE {}
        gyro_keys ==
            IF gyro > 0
            THEN {"gyro_x_max_abs", "gyro_magnitude_max"}
                   \cup (IF gyro > 2 THEN {"gyro_x_fft_max"} ELSE {})
            ELSE {}
        rot_keys == IF rot > 0 THEN {"rot_x_range"} ELSE {}
        of == [k \in accel_keys \cup gyro_keys \cup rot_keys |->
                 IF k \in accel_keys THEN accel
                 ELSE IF k \in gyro_keys THEN gyro ELSE rot]
    IN  of

ExtractCalls ==
    {[fn |-> "extract_window_features", args |-> <<w>>] : w \in Windows}

\* the predictors: features = extract_window_features(buffer_df), then
\* pd.DataFrame([features]).reindex(columns=ml_feature_names, fill_value=0)
CallExtract ==
    /\ ctl = "library"
    /\ pc = "call"
    /\ call.fn = "extract_window_features"
    /\ pc' = "returned"
    /\ returned' =
         [raised |-> "none",
          vector |-> LET features == extract_window_features(call.args[1])
                     IN  [i \in 1..Len(TrainedNames) |->
                            IF TrainedNames[i] \in DOMAIN features
                            THEN features[TrainedNames[i]] ELSE 0]]
    /\ UNCHANGED libraryRest

\* vector components tried
MaxCoord == 2

\* A number of the form (a + b * sqrt(2)) / 2^k, written <<a, b, k>> and kept
\* exactly: the components of the quaternions of the quarter and half turns
\* and everything the rotation formula computes from them.
RECURSIVE Reduced(_)
Reduced(x) ==
    IF x[3] > 0 /\ x[1] % 2 = 0 /\ x[2] % 2 = 0
    THEN Reduced(<<x[1] \div 2, x[2] \div 2, x[3] - 1>>)
    ELSE x
Num(n) == <<n, 0, 0>>
NumAdd(x, y) ==
    LET k == IF x[3] > y[3] THEN x[3] ELSE y[3]
    IN  Reduced(<<x[1] * 2^(k - x[3]) + y[1] * 2^(k - y[3]),
                  x[2] * 2^(k - x[3]) + y[2] * 2^(k - y[3]), k>>)
NumMul(x, y) ==
    Reduced(<<x[1] * y[1] + 2 * x[2] * y[2], x[1] * y[2] + x[2] * y[1],
              x[3] + y[3]>>)
NumSub(x, y) == NumAdd(x, NumMul(Num(-1), y))

\* sin(pi / 4) = cos(pi / 4) = sqrt(2) / 2
HalfSqrt2 == <<0, 1, 1>>
\* quaternions <<x, y, z, w>>: no rotation, the half turn about X, the
\* quarter turn about Z, the half turn about Z
IdentityQuat == <<Num(0), Num(0), Num(0), Num(1)>>
HalfTurnX == <<Num(1), Num(0), Num(0), Num(0)>>
QuarterTurnZ == <<Num(0), Num(0), HalfSqrt2, HalfSqrt2>>
HalfTurnZ == <<Num(0), Num(0), Num(1), Num(0)>>

\* rotate_vector_by_quaternion reading the quaternion as (w, x, y, z)
rotate_exact_ScalarFirst(vector, quat) ==
    LET q_vec == <<quat[2], quat[3], quat[4]>>
        q_scalar == quat[1]
        Cross(u, v, i, j) == NumSub(NumMul(u[i], v[j]), NumMul(u[j], v[i]))
        a == << NumMul(Num(2), Cross(q_vec, vector, 2, 3)),
                NumMul(Num(2), Cross(q_vec, vector, 3, 1)),
                NumMul(Num(2), Cross(q_vec, vector, 1, 2)) >>
        b == << NumMul(q_scalar, a[1]), NumMul(q_scalar, a[2]),
                NumMul(q_scalar, a[3]) >>
        c == << Cross(q_vec, a, 2, 3), Cross(q_vec, a, 3, 1),
                Cross(q_vec, a, 1, 2) >>
    IN  << NumAdd(NumAdd(vector[1], b[1]), c[1]),
           NumAdd(NumAdd(vector[2], b[2]), c[2]),
           NumAdd(NumAdd(vector[3], b[3]), c[3]) >>

\* rotate_vector_by_quaternion with the cross products taken as v x q
rotate_exact_Reversed(vector, quat) ==
    LET q_vec == <<quat[1], quat[2], quat[3]>>
        q_scalar == quat[4]
        Cross(u, v, i, j) == NumSub(NumMul(u[j], v[i]), NumMul(u[i], v[j]))
        a == << NumMul(Num(2), Cross(q_vec, vector, 2, 3)),
                NumMul(Num(2), Cross(q_vec, vector, 3, 1)),
                NumMul(Num(2), Cross(q_vec, vector, 1, 2)) >>
        b == << NumMul(q_scalar, a[1]), NumMul(q_scalar, a[2]),
                NumMul(q_scalar, a[3]) >>
        c == << Cross(q_vec, a, 2, 3), Cross(q_vec, a, 3, 1),
                Cross(q_vec, a, 1, 2) >>
    IN  << NumAdd(NumAdd(vector[1], b[1]), c[1]),
           NumAdd(NumAdd(vector[2], b[2]), c[2]),
           NumAdd(NumAdd(vector[3], b[3]), c[3]) >>

\* feature_extractor.rotate_vector_by_quaternion on exact numbers
rotate_exact(vector, quat) ==
    LET q_vec == <<quat[1], quat[2], quat[3]>>
        q_scalar == quat[4]
        Cross(u, v, i, j) == NumSub(NumMul(u[i], v[j]), NumMul(u[j], v[i]))
        a == << NumMul(Num(2), Cross(q_vec, vector, 2, 3)),
                NumMul(Num(2), Cross(q_vec, vector, 3, 1)),
                NumMul(Num(2), Cross(q_vec, vector, 1, 2)) >>
        b == << NumMul(q_scalar, a[1]), NumMul(q_scalar, a[2]),
                NumMul(q_scalar, a[3]) >>
        c == << Cross(q_vec, a, 2, 3), Cross(q_vec, a, 3, 1),
                Cross(q_vec, a, 1, 2) >>
    IN  << NumAdd(NumAdd(vector[1], b[1]), c[1]),
           NumAdd(NumAdd(vector[2], b[2]), c[2]),
           NumAdd(NumAdd(vector[3], b[3]), c[3]) >>

RotateCalls ==
    {[fn |-> "rotate_vector_by_quaternion",
      args |-> << <<Num(x), Num(y), Num(z)>>, q >>] :
        x \in -MaxCoord..MaxCoord, y \in -MaxCoord..MaxCoord,
        z \in -MaxCoord..MaxCoord,
        q \in {IdentityQuat, HalfTurnX, QuarterTurnZ, HalfTurnZ}}

\* rotate_vector_by_quaternion(vector, quat)
CallRotate ==
    /\ ctl = "library"
    /\ pc = "call"
    /\ call.fn = "rotate_vector_by_quaternion"
    /\ pc' = "returned"
    /\ returned' = rotate_exact(call.args[1], call.args[2])
    /\ UNCHANGED libraryRest

\* the longest input of the merger, and its timestamps and sensor values
MaxRows == 3
MergeTimestamps == {100, 200}
MergeValues == {2, 3}
\* a raw row: its sensor kind, its timestamp and the reading in the kind's
\* own columns (accel_x.., gyro_x.. or rot_w..)
RawRows ==
    [sensor : {"linear_acceleration", "gyroscope", "rotation_vector"},
     timestamp : MergeTimestamps, value : MergeValues]

\* the loop over df.groupby('timestamp'), groups in ascending order;
\* rot_default is the initial rot_w of a merged row
RECURSIVE MergeGroups(_, _, _)
MergeGroups(df, timestamps, rot_default) ==
    IF timestamps = {} THEN <<>>
    ELSE LET timestamp == CHOOSE t \in timestamps : \A u \in timestamps : t <= u
             Latest_(kind, default) ==
                 LET group == {i \in 1..Len(df) : /\ df[i].timestamp = timestamp
                                                  /\ df[i].sensor = kind}
                 IN  IF group = {} THEN default
                     ELSE df[CHOOSE i \in group : \A j \in group : j <= i].value
             merged == [accel_x |-> Latest_("linear_acceleration", 0),
                        gyro_x |-> Latest_("gyroscope", 0),
                        rot_w |-> Latest_("rotation_vector", rot_default),
                        timestamp |-> timestamp]
         IN  <<merged>> \o MergeGroups(df, timestamps \ {timestamp}, rot_default)

\* merge_sensors_by_timestamp with rot_w starting at 0 like the other columns
merge_sensors_by_timestamp_ZeroRotW(df) ==
    IF df = <<>> THEN df
    ELSE MergeGroups(df, {df[i].timestamp : i \in 1..Len(df)}, 0)

merge_sensors_by_timestamp(df) ==
    IF df = <<>> THEN df
    ELSE MergeGroups(df, {df[i].timestamp : i \in 1..Len(df)}, 1)

MergeCalls ==
    {[fn |-> "merge_sensors_by_timestamp", args |-> <<df>>] :
        df \in UNION {[1..n -> RawRows] : n \in 0..MaxRows}}

\* merge_sensors_by_timestamp(df)
CallMerge ==
    /\ ctl = "library"
    /\ pc = "call"
    /\ call.fn = "merge_sensors_by_timestamp"
    /\ pc' = "returned"
    /\ returned' = merge_sensors_by_timestamp(call.args[1])
    /\ UNCHANGED libraryRest

LibraryCalls ==
    ReflexCalls \cup VectorCalls \cup ExtractCalls \cup RotateCalls
      \cup MergeCalls

InitLibrary ==
    /\ ctl = "library"
    /\ now = StartTime
    /\ pc = "call"
    /\ task = <<>>
    /\ stop_event = FALSE
    /\ queues = <<>>
    /\ is_walking = FALSE
    /\ facing_direction = "right"
    /\ pressed_keys = {}
    /\ last_action_time = <<>>
    /\ last_walk_confirmation = 0
    /\ walk_confirmed = FALSE
    /\ latest_gesture = "none"
    /\ fired_at = <<>>
    /\ held = {}
    /\ events = <<>>
    /\ NoConsensus
    /\ buffers = <<>> /\ count = <<>> /\ delivered = <<>> /\ sent = 0
    /\ accepted = <<>> /\ confirmed = {}
    /\ NoHybrid /\ NoDash /\ NoCollector
    /\ call \in LibraryCalls
    /\ returned = <<>>

NextLibrary ==
    \/ CallReflex
    \/ CallPrepare
    \/ CallFeaturesVec
    \/ CallPredictAction
    \/ CallExtract
    \/ CallRotate
    \/ CallMerge

SpecLibrary == InitLibrary /\ [][NextLibrary]_vars

----------------------------------------------------------------------------
(* The claims *)

Other(d) == IF d = "left" THEN "right" ELSE "left"
TurnTarget(g) == IF g = "turn_left" THEN "left" ELSE "right"

\* C1: in the async actor, after every step (handle_action, handle_locomotion,
\* the walk-timeout branch) the left and right keys are never both held, and
\* while is_walking is true exactly one of them is held.
C1_DirectionKeysExclusive ==
    (ctl = "async" /\ task["actor"] = "running") =>
        /\ ~(Directions \subseteq held)
        /\ is_walking => Cardinality(held \cap Directions) = 1

\* C1's case: the actor walks left after a turn swapped the keys
C1_Witness ==
    /\ ctl = "async"
    /\ pc = "handle_locomotion"
    /\ latest_gesture = "turn_left"
    /\ is_walking
    /\ held = {"left"}

\* C6: when a turn to the opposite direction is confirmed while walking, in
\* the async actor or in the parallel controller's actor_thread, the held
\* direction keys go from {old} to {new} and walking does not stop.
C6_ConfirmedTurnSwapsKeys ==
    [][/\ (/\ ctl = "async"
           /\ pc = "handle_action" /\ pc' = "handle_locomotion"
           /\ is_walking
           /\ latest_gesture' \in {"turn_left", "turn_right"}
           /\ TurnTarget(latest_gesture') # facing_direction)
            => (/\ held = {facing_direction}
                /\ facing_direction' = Other(facing_direction)
                /\ held' = {facing_direction'}
                /\ is_walking')
       /\ (/\ ctl = "parallel"
           /\ pc = "action" /\ pc' = "loco"
           /\ is_walking
           /\ latest_gesture' \in {"turn_left", "turn_right"}
           /\ Consensus(DequeAppend(history["action"], latest_gesture',
                                    PAR_CONFIDENCE_GATING_COUNT),
                        PAR_CONFIDENCE_GATING_COUNT)
           /\ TurnTarget(latest_gesture') # facing_direction)
            => (/\ held = {facing_direction}
                /\ facing_direction' = Other(facing_direction)
                /\ held' = {facing_direction'}
                /\ is_walking')]_vars

\* C7: a jump or punch handled while walking first releases the direction
\* keys and clears is_walking and only then taps the action key: no action
\* key is ever pressed while a direction key is held, and after the tap the
\* actor is not walking.
C7_ActionInterruptsWalking ==
    \A i \in 1..Len(events) :
        (events[i].op = "press" /\ events[i].key \in {"jump", "attack"})
            => (events[i].before \cap Directions = {} /\ ~is_walking)

\* C2: once a controller has shut down, no direction key is held.
C2_ShutdownReleasesKeys ==
    (\A n \in DOMAIN task : task[n] = "stopped") => held \cap Directions = {}

\* C5: once a one-shot gesture has been confirmed the consensus history is
\* empty, so the accepted prediction that follows a confirmation of a one-shot
\* gesture never confirms it again (a run of K+1 yields one confirmation).
C5_ConfirmationClearsHistory ==
    [][/\ (ctl = "svm" /\ latest_gesture' \in OneShot /\ events' # <<>>)
            => history'["svm"] = <<>>
       /\ (/\ ctl = "svm"
           /\ latest_gesture \in OneShot /\ events # <<>>
           /\ latest_gesture' = latest_gesture
           /\ history' # history)
            => events' = <<>>]_vars

PressesOf(ev, k) ==
    Cardinality({i \in 1..Len(ev) : ev[i].op = "press" /\ ev[i].key = k})

\* C3 as stated: an occurrence of jump or punch/attack that arrives less than
\* the cooldown after the arrival of the last occurrence that fired presses
\* no key, and one that arrives more than the cooldown after it presses the
\* key once.
C3_CooldownFromArrival ==
    [][/\ (/\ ctl = "async"
           /\ pc = "handle_action" /\ pc' = "handle_locomotion"
           /\ latest_gesture' \in {"jump", "punch"})
            => LET g == latest_gesture'
                   n == PressesOf(events', ActionKey(g))
               IN  /\ now - fired_at[g] < ACTION_COOLDOWN => n = 0
                   /\ now - fired_at[g] > ACTION_COOLDOWN => n = 1
       /\ (/\ ctl = "arbitrator"
           /\ pc = "main_loop" /\ pc' # "main_loop"
           /\ latest_gesture' \in {"jump", "attack"})
            => LET a == latest_gesture'
                   n == PressesOf(events', a)
               IN  /\ now - fired_at[a] < REFLEX_COOLDOWN => n = 0
                   /\ now - fired_at[a] > REFLEX_COOLDOWN => n = 1]_vars

\* C3 amended: the cooldown runs from the recorded firing time, which is the
\* arrival time in the async handle_action and the end of the 0.1 s key hold
\* in ExecutionArbitrator.execute.  An occurrence that arrives less than the
\* cooldown after it presses no key; one that arrives more than the cooldown
\* after it presses the key once.
C3_CooldownFromRecordedFiring ==
    [][/\ (/\ ctl = "async"
           /\ pc = "handle_action" /\ pc' = "handle_locomotion"
           /\ latest_gesture' \in {"jump", "punch"})
            => LET g == latest_gesture'
                   n == PressesOf(events', ActionKey(g))
               IN  /\ now - fired_at[g] < ACTION_COOLDOWN => n = 0
                   /\ now - fired_at[g] > ACTION_COOLDOWN => n = 1
       /\ (/\ ctl = "arbitrator"
           /\ pc = "main_loop" /\ pc' # "main_loop"
           /\ latest_gesture' \in {"jump", "attack"})
            => LET a == latest_gesture'
                   n == PressesOf(events', a)
                   recorded == IF fired_at[a] = 0 THEN 0 ELSE fired_at[a] + KEY_HOLD
               IN  /\ now - recorded < REFLEX_COOLDOWN => n = 0
                   /\ now - recorded > REFLEX_COOLDOWN => n = 1]_vars

\* C3's case: the arbitrator has pressed jump a second time, the first press
\* and the cooldown lying before it
C3_Witness ==
    /\ ctl = "arbitrator"
    /\ pc = "returned_true"
    /\ latest_gesture = "jump"
    /\ count["jump"] = 2
    /\ fired_at["jump"] > StartTime + REFLEX_COOLDOWN + KEY_HOLD

\* C4: the consensus filter confirms at a position of the accepted sequence
\* only when the K accepted predictions ending there agree, and the accepted
\* sequence jump, jump, punch, jump, jump (K = 2) is confirmed after its
\* second and its fifth element and nowhere else.
C4_ConsensusOfK ==
    ctl = "predictor" =>
        /\ \A i \in confirmed :
              /\ i >= CONSENSUS_WINDOW
              /\ \A j \in (i - CONSENSUS_WINDOW + 1)..i : accepted[j] = accepted[i]
        /\ accepted = <<"jump", "jump", "punch", "jump", "jump">>
              => confirmed = {2, 5}
        /\ (Len(accepted) >= 2 /\ accepted[1] = accepted[2]) => 2 \in confirmed

\* C4's case: the five accepted predictions of the example have been filtered
C4_Witness ==
    /\ ctl = "predictor"
    /\ accepted = <<"jump", "jump", "punch", "jump", "jump">>
    /\ confirmed = {2, 5}

\* C10: an exception raised by feature extraction, scaling or inference in one
\* prediction cycle leaves the predictor and every other task running.
C10_InferenceErrorSkipped ==
    (ctl = "predictor" /\ latest_gesture = "exception")
        => \A n \in DOMAIN task : task[n] = "running"

\* C9: after a malformed packet (invalid JSON, undecodable bytes, a payload
\* that is not an object, a missing or wrong-typed values record) the
\* distributor and every other task are still running.
C9_MalformedPacketDropped ==
    (ctl = "distributor" /\ latest_gesture \in Malformed)
        => \A n \in DOMAIN task : task[n] = "running"

RangeOf(q) == {q[i] : i \in 1..Len(q)}

\* C8: the collector fans out: a reading that one predictor has taken is one
\* the other predictor has taken too or can still take (it is waiting in the
\* queue the other predictor reads).
C8_FanOutNotPartition ==
    ctl = "parallel_feed" =>
        \A p \in ParPredictors, o \in ParPredictors :
            \A r \in delivered[p] :
                r \in delivered[o] \/ r \in RangeOf(queues["sensor_queue"])

----------------------------------------------------------------------------
(* The hybrid controller's claims *)

\* C11: in the hybrid controller, five consecutive acceleration datagrams
\* 20 ms apart with world Z = 20 and the identity orientation produce exactly
\* one jump press and release, and no direction key is ever held.
\* The threshold logic of the same loop presses jump for every one of them,
\* without a cooldown, and its 0.1 s holds let the reflex layer fire again.
C11_OneJumpPerBurst ==
    (ctl = "hybrid" /\ config.hybrid /\ scenario >= 0)
        => /\ held \cap Directions = {}
           /\ (scenario = ScenarioLen => count["jump"] = 1)

\* C12: every key press and release is issued by the actuating stage, in the
\* hybrid controller ExecutionArbitrator.execute, and nothing else writes
\* facing_direction or is_walking.
\* The walker thread presses and releases the direction key and writes
\* is_walking, the loop's threshold logic presses jump and attack itself, and
\* its rotation_vector branch flips facing_direction.
C12_OnlyArbitratorActuates ==
    [][(ctl = "hybrid" /\ config.hybrid)
        => /\ \A i \in 1..Len(issuers') : issuers'[i] = "arbitrator"
           /\ is_walking' = is_walking
           /\ facing_direction' # facing_direction
                  => last_action_time'["turn"] # last_action_time["turn"]]_vars

\* C13: the reflex and ML paths share one per-action cooldown table: once
\* action A (jump, attack, turn) has fired, an attempt to fire A within the
\* cooldown is suppressed, so that in an iteration that ends within the
\* cooldown of A's recorded firing A's key is not pressed and, for turn,
\* facing_direction does not change.
\* Only calls of arbitrator.execute consult the table: the threshold logic
\* of the same loop presses jump and flips facing_direction without it.
C13_SharedCooldownSuppresses ==
    [][(ctl = "hybrid" /\ config.hybrid)
        => \A a \in ArbActions :
             (last_action_time[a] > 0
                  /\ now' - last_action_time[a] < REFLEX_COOLDOWN)
                 => /\ a = "turn" => facing_direction' = facing_direction
                    /\ a # "turn" => PressesOf(events', a) = 0]_vars

\* C14: once the stop signal is set, the collector, both predictors and the
\* actor each end, and when the process exits the actor has released the
\* direction keys: none is held.
C14_StopEndsEveryThread ==
    /\ (ctl = "parallel" /\ stop_event)
           ~> (\A n \in DOMAIN task : task[n] \in {"stopped", "exited"})
    /\ []((ctl = "parallel" /\ "main" \in DOMAIN task /\ task["main"] = "exited")
              => /\ held \cap Directions = {}
                 /\ \A n \in ParFeedThreads \cup {"actor"} : task[n] = "stopped")

\* the process has exited after a shutdown in which the actor was walking and
\* its cleanup released keys
C14_Witness ==
    /\ ctl = "parallel" /\ "main" \in DOMAIN task
    /\ task["main"] = "exited"
    /\ is_walking
    /\ Len(events) = 2 /\ events[1].op = "release"
    /\ events[1].before \cap Directions # {}

LocoHandled(label) ==
    \/ /\ ctl = "async"
       /\ pc = "handle_locomotion" /\ pc' = "walk_timeout"
       /\ latest_gesture' = label
    \/ /\ ctl = "parallel"
       /\ pc = "loco" /\ pc' = "action"
       /\ latest_gesture' # "empty"
       /\ Consensus(history'["loco"], PAR_CONFIDENCE_GATING_COUNT)
       /\ history'["loco"][1] = label

\* C16: when an actor handles a confirmed locomotion label, walk while not
\* walking presses exactly the key of the current facing direction and sets
\* is_walking; walk while walking issues no key event; idle while walking
\* releases the held direction key(s), and nothing else, and clears
\* is_walking.
C16_LocomotionEffects ==
    [][/\ (LocoHandled("walk") /\ ~is_walking)
            => /\ events' = << [op |-> "press", key |-> facing_direction,
                                before |-> held] >>
               /\ held' = held \cup {facing_direction}
               /\ is_walking'
               /\ facing_direction' = facing_direction
       /\ (LocoHandled("walk") /\ is_walking)
            => events' = <<>> /\ is_walking' /\ held' = held
       /\ (LocoHandled("idle") /\ is_walking)
            => /\ ~is_walking'
               /\ held \cap Directions # {}
               /\ held' = held \ Directions
               /\ Len(events') = Cardinality(held \cap Directions)
               /\ \A i \in 1..Len(events') : events'[i].op = "release"]_vars

\* idle has just been handled while walking left: the left key was released
C16_Witness ==
    /\ ctl = "parallel" /\ pc = "action"
    /\ latest_gesture = "idle"
    /\ ~is_walking /\ facing_direction = "left"
    /\ events = << [op |-> "release", key |-> "left", before |-> {"left"}] >>

\* C17: when a model artifact cannot be loaded, or the socket cannot be
\* bound, at startup, the controller refuses to start: it never enters its
\* loop.
\* load_ml_models turns a missing artifact into "no model" and the hybrid
\* controller runs its loop in threshold-based mode.
C17_NoDegradedStart ==
    (ctl = "hybrid" /\ pc = "recvfrom")
        => /\ task["load_ml_models"] = "loaded"
           /\ task["bind"] = "bound"

----------------------------------------------------------------------------
(* The async controller's dashboard and queues: claims                      *)

\* C18: at every refresh of the dashboard the feed-idle status is raised
\* (watch_connected is false) exactly when no sensor packet has arrived for
\* the 2 s timeout, and it is clear when a packet arrived since
C18_IdleOnlyWhenSilent ==
    [][DashboardRefresh =>
         /\ (~watch_connected' => now - last_packet_time >= WATCH_TIMEOUT)
         /\ (now - last_packet_time > WATCH_TIMEOUT => ~watch_connected')]_vars

\* C19: no sensor queue ever holds more readings than its maxsize; when the
\* distributor has a reading for a full queue the reading is dropped and the
\* queue keeps its items in their order, a queue with room gets the reading
\* at its end, and the distributor goes on running and can take the next
\* datagram at once
C19_BoundedDropNewest ==
    /\ [](ctl = "distributor" =>
            /\ \A q \in DOMAIN queues : Len(queues[q]) <= SensorQueueMax(q)
            /\ (task["distributor"] = "running" /\ sent < MaxReadings
                  => ENABLED Distribute("gyroscope")))
    /\ [][(ctl = "distributor" /\ sent' = sent + 1) =>
            /\ task'["distributor"] = "running"
            /\ \A q \in DOMAIN queues :
                 queues'[q] = IF Len(queues[q]) >= SensorQueueMax(q)
                              THEN queues[q]
                              ELSE Append(queues[q], sent')]_vars

\* a reading was dropped: a sensor queue is full and the latest reading is
\* neither in it nor taken from it
C19_Witness ==
    /\ ctl = "distributor"
    /\ \E q \in DOMAIN queues :
         /\ Len(queues[q]) = SensorQueueMax(q)
         /\ sent > 0
         /\ sent \notin RangeOf(queues[q]) \cup delivered[q]

----------------------------------------------------------------------------
(* The per-action cooldown table: claims                                    *)

\* the cooldown test of the controller in control, for action b at time t
Allowed(lat, b, t) ==
    IF ctl = "arbitrator" THEN can_execute(lat, b, t)
    ELSE t - lat[b] > ACTION_COOLDOWN

\* C20: the cooldown is per action.  A step in which action a fires leaves
\* the recorded time of every other action b as it was, so b is allowed
\* after the step exactly if it would be without a's firing, and a b that
\* was allowed stays allowed; an action that has never fired is allowed at
\* any time, and a request for it fires
C20_CooldownPerAction ==
    /\ [](ctl \in {"async", "arbitrator"} =>
            \A b \in DOMAIN last_action_time :
                fired_at[b] = 0 => Allowed(last_action_time, b, now))
    /\ [][(ctl \in {"async", "arbitrator"}) =>
            /\ \A a \in DOMAIN fired_at :
                 fired_at'[a] # fired_at[a] =>
                   \A b \in DOMAIN last_action_time \ {a} :
                      /\ last_action_time'[b] = last_action_time[b]
                      /\ Allowed(last_action_time', b, now')
                            = Allowed(last_action_time, b, now')
                      /\ Allowed(last_action_time, b, now)
                            => Allowed(last_action_time', b, now')
            /\ (/\ ctl = "arbitrator"
                /\ pc = "main_loop" /\ pc' # "main_loop"
                /\ fired_at[latest_gesture'] = 0)
                   => (pc' = "returned_true")
            /\ (/\ ctl = "async"
                /\ pc = "handle_action" /\ pc' = "handle_locomotion"
                /\ latest_gesture' \in {"jump", "punch"}
                /\ fired_at[latest_gesture'] = 0)
                   => (fired_at'[latest_gesture'] = now)
      ]_vars

\* C20's case: the arbitrator has just fired attack while jump, fired
\* earlier, is still on its cooldown
C20_Witness ==
    /\ ctl = "arbitrator"
    /\ pc = "returned_true"
    /\ latest_gesture = "attack"
    /\ fired_at["jump"] > 0
    /\ fired_at["attack"] >= fired_at["jump"]
    /\ ~can_execute(last_action_time, "jump", now)

----------------------------------------------------------------------------
(* The library functions: claims                                            *)

\* the arguments of the latest call, rotated into the world frame
WorldAccel == rotate_vector_by_quaternion(call.args[1], call.args[2])

\* C21: detect_reflex_actions returns jump exactly when the world-frame Z
\* exceeds the jump threshold; failing that, attack exactly when the
\* horizontal magnitude exceeds the attack threshold and |Z| is below the
\* stability threshold; in every other case no action.  It returns nothing
\* else, so never turn or walk.
C21_ReflexDecision ==
    (ctl = "library" /\ pc = "returned" /\ call.fn = "detect_reflex_actions"
       /\ Len(call.args[2]) = 4) =>
        LET z == WorldAccel[3]
            horizontal_sq == WorldAccel[1] * WorldAccel[1]
                               + WorldAccel[2] * WorldAccel[2]
            jumps == z > REFLEX_JUMP_THRESHOLD
            attacks == /\ ~jumps
                       /\ horizontal_sq > REFLEX_ATTACK_THRESHOLD
                                            * REFLEX_ATTACK_THRESHOLD
                       /\ z < REFLEX_STABILITY_THRESHOLD
                       /\ z > -REFLEX_STABILITY_THRESHOLD
        IN  /\ returned \in {"jump", "attack", "None"}
            /\ (returned = "jump") = jumps
            /\ (returned = "attack") = attacks

\* C21's cases: a jump seen through an upside-down watch, and an attack
C21_Witness ==
    /\ ctl = "library" /\ pc = "returned"
    /\ call.fn = "detect_reflex_actions"
    /\ call.args = << <<0, 0, -20>>, <<1, 0, 0, 0>> >>
    /\ returned = "jump"

\* C22: the vector handed to inference has one entry per name of the
\* feature-name list, in the list's order: the computed value of the name,
\* or 0 when the name was not computed; computed features outside the list
\* do not appear
C22_VectorFollowsNameList ==
    (ctl = "library" /\ pc = "returned"
       /\ call.fn \in {"prepare_feature_vector", "predictor", "predict_action"})
      => LET features == call.args[1]
             feature_names == call.args[2]
         IN  /\ returned.raised = "none"
             /\ Len(returned.vector) = Len(feature_names)
             /\ \A i \in 1..Len(feature_names) :
                  returned.vector[i] =
                     IF feature_names[i] \in DOMAIN features
                     THEN features[feature_names[i]] ELSE 0

\* the sensor kinds a trained feature is computed from
KeyedTo(name) ==
    IF name \in {"accel_x_max", "accel_x_fft_max", "accel_magnitude_max"}
    THEN {"linear_acceleration"}
    ELSE IF name = "world_accel_x_max"
    THEN {"linear_acceleration", "rotation_vector"}
    ELSE IF name = "rot_x_range" THEN {"rotation_vector"}
    ELSE {"gyroscope"}

C24_IdentityRotation ==
    (ctl = "library" /\ pc = "returned"
       /\ call.fn = "rotate_vector_by_quaternion"
       /\ call.args[2] = IdentityQuat) => returned = call.args[1]

\* C24's case: a vector with three different components has been rotated by
\* the identity quaternion
C24_Witness ==
    /\ ctl = "library" /\ pc = "returned"
    /\ call.fn = "rotate_vector_by_quaternion"
    /\ call.args = << <<Num(2), Num(1), Num(-1)>>, IdentityQuat >>
    /\ returned = <<Num(2), Num(1), Num(-1)>>

\* C25: the half turn about X (quaternion (1, 0, 0, 0)) maps [0, 0, Z] to
\* [0, 0, -Z], and the quarter turn about Z maps [X, 0, 0] to [0, X, 0]
C25_HalfAndQuarterTurn ==
    (ctl = "library" /\ pc = "returned"
       /\ call.fn = "rotate_vector_by_quaternion") =>
        LET v == call.args[1]
        IN  /\ (call.args[2] = HalfTurnX /\ v[1] = Num(0) /\ v[2] = Num(0))
                  => returned = <<Num(0), Num(0), NumSub(Num(0), v[3])>>
            /\ (call.args[2] = QuarterTurnZ /\ v[2] = Num(0) /\ v[3] = Num(0))
                  => returned = <<Num(0), v[1], Num(0)>>

\* C25's case: [2, 0, 0] has been turned a quarter about Z into [0, 2, 0]
C25_Witness ==
    /\ ctl = "library" /\ pc = "returned"
    /\ call.fn = "rotate_vector_by_quaternion"
    /\ call.args = << <<Num(2), Num(0), Num(0)>>, QuarterTurnZ >>
    /\ returned = <<Num(0), Num(2), Num(0)>>

\* the readings of one sensor kind among the input rows of one timestamp
ReadingsAt(df, t, kind) ==
    {df[i].value : i \in {j \in 1..Len(df) : /\ df[j].timestamp = t
                                            /\ df[j].sensor = kind}}

\* C26: merge_sensors_by_timestamp returns one row per distinct timestamp of
\* its input; a row carries, for each sensor kind, a reading of that kind at
\* its timestamp, or the default (0, and 1 for rot_w) when the kind is absent
\* there; an empty input gives an empty output
C26_OneRowPerTimestamp ==
    (ctl = "library" /\ pc = "returned"
       /\ call.fn = "merge_sensors_by_timestamp") =>
        LET df == call.args[1]
            One(have, reading, default) ==
                IF have = {} THEN reading = default ELSE reading \in have
        IN  /\ df = <<>> => returned = <<>>
            /\ {returned[i].timestamp : i \in 1..Len(returned)}
                  = {df[i].timestamp : i \in 1..Len(df)}
            /\ \A i, j \in 1..Len(returned) :
                  returned[i].timestamp = returned[j].timestamp => i = j
            /\ \A i \in 1..Len(returned) :
                  LET t == returned[i].timestamp
                  IN  /\ One(ReadingsAt(df, t, "linear_acceleration"),
                             returned[i].accel_x, 0)
                      /\ One(ReadingsAt(df, t, "gyroscope"),
                             returned[i].gyro_x, 0)
                      /\ One(ReadingsAt(df, t, "rotation_vector"),
                             returned[i].rot_w, 1)

\* C26's case: three rows at two timestamps merged into two rows, one of
\* them without a gyroscope and a rotation reading
C26_Witness ==
    /\ ctl = "library" /\ pc = "returned"
    /\ call.fn = "merge_sensors_by_timestamp"
    /\ Len(call.args[1]) = 3
    /\ returned = << [accel_x |-> 2, gyro_x |-> 3, rot_w |-> 1, timestamp |-> 100],
                     [accel_x |-> 3, gyro_x |-> 0, rot_w |-> 1, timestamp |-> 200] >>

(* ------------------------------------------------------------------------ *)
(* The button data collector (button_data_collector.py): one thread that   *)
(* receives datagrams and handles each before it receives the next.  It is *)
(* modelled as constructed with skip_noise, from the main collection loop  *)
(* on.  pc is "recvfrom" between two datagrams, "save_recording" when      *)
(* handle_label_event has called save_recording, and "waiting" once the    *)
(* thread waits in Lock.acquire.                                           *)
(* ------------------------------------------------------------------------ *)

\* the most sensor entries and recordings a run collects
MaxSamples == 3
MaxRecordings == 2
CollectorActions == {"walk", "idle", "punch", "jump", "turn_left", "turn_right"}
LabelEvents == {"ping", "start", "end"}

collectorRest == <<ctl, now, task, stop_event, queues, is_walking,
                   facing_direction, pressed_keys, last_action_time,
                   last_walk_confirmation, walk_confirmed, fired_at, kbVars,
                   consensusVars, buffers, count, delivered, sent, accepted,
                   confirmed, config, walk_fuel_seconds, last_frame_time,
                   walking_thread, last_attack_time, last_known_orientation,
                   orientation_history, last_prediction_time, issuers,
                   scenario, dashVars, callVars>>

\* handle_message for a sensor datagram: the entry is appended under the lock
HandleSensor ==
    /\ ctl = "collector"
    /\ pc = "recvfrom"
    /\ sensor_buffer < MaxSamples
    /\ lock = "free"
    /\ sensor_buffer' = sensor_buffer + 1
    /\ latest_gesture' = [event |-> "sensor", action |-> "None"]
    /\ UNCHANGED <<pc, collectorVars, collectorRest>>

\* handle_label_event up to its return or its call of save_recording
handle_label_event(event, action) ==
    /\ ctl = "collector"
    /\ pc = "recvfrom"
    /\ latest_gesture' = [event |-> event, action |-> action]
    /\ CASE event = "ping" ->
              UNCHANGED <<pc, collectorVars>>
         [] event = "start" ->
              /\ lock = "free"
              /\ active_recording' =
                    IF active_recording # "None" THEN active_recording
                    ELSE action
              /\ UNCHANGED <<pc, lock, total_recordings>>
         [] event = "end" ->
              /\ lock = "free"
              /\ IF active_recording = "None" \/ active_recording # action
                 THEN UNCHANGED <<pc, collectorVars>>
                 ELSE \* save_recording is called inside `with self.lock`
                      /\ lock' = "held"
                      /\ pc' = "save_recording"
                      /\ UNCHANGED <<active_recording, total_recordings>>
    /\ UNCHANGED <<sensor_buffer, collectorRest>>

HandleLabelEvent ==
    \E event \in LabelEvents, action \in CollectorActions :
        handle_label_event(event, action)

\* save_recording, and the rest of handle_label_event after it returns.
\* threading.Lock is not reentrant: acquire waits until the lock is free,
\* whoever holds it.
SaveRecording ==
    /\ ctl = "collector"
    /\ pc \in {"save_recording", "waiting"}
    /\ IF lock = "free"
       THEN /\ total_recordings < MaxRecordings
            /\ total_recordings' = total_recordings + 1
            /\ active_recording' = "None"
            /\ lock' = "free"
            /\ pc' = "recvfrom"
       ELSE /\ pc = "save_recording"
            /\ pc' = "waiting"
            /\ UNCHANGED collectorVars
    /\ UNCHANGED <<latest_gesture, sensor_buffer, collectorRest>>

InitCollector ==
    /\ ctl = "collector"
    /\ now = StartTime
    /\ pc = "recvfrom"
    /\ task = <<>>
    /\ stop_event = FALSE
    /\ queues = <<>>
    /\ is_walking = FALSE
    /\ facing_direction = "right"
    /\ pressed_keys = {}
    /\ last_action_time = <<>>
    /\ last_walk_confirmation = 0
    /\ walk_confirmed = FALSE
    /\ latest_gesture = [event |-> "none", action |-> "None"]
    /\ fired_at = <<>>
    /\ held = {}
    /\ events = <<>>
    /\ NoConsensus
    /\ NoFeed

NextCollector ==
    \/ HandleSensor
    \/ HandleLabelEvent
    \/ SaveRecording

SpecCollector == InitCollector /\ [][NextCollector]_vars

\* the thread is scheduled: a call that can proceed does
SpecCollectorFair == SpecCollector /\ WF_vars(SaveRecording)

\* C27: an 'end' event whose action matches the active recording is handled
\* to completion: the recording is saved, total_recordings is one more and
\* active_recording is None again
C27_EndCompletes ==
    \A n \in 0..MaxRecordings :
        (ctl = "collector" /\ pc = "save_recording" /\ total_recordings = n)
          ~> (/\ pc = "recvfrom"
              /\ active_recording = "None"
              /\ total_recordings = n + 1)

\* C28: while a controller is walking, the direction key it holds is the key
\* of the current facing_direction, also after a turn was processed
C28_WalkingHoldsFacingKey ==
    (ctl = "hybrid" /\ is_walking) =>
        /\ facing_direction \in held
        /\ Flip(facing_direction) \notin held

(* ------------------------------------------------------------------------ *)
(* The CNN/LSTM controller (phase_iv_ml_controller/udp_listener_v3.py): the *)
(* main loop predicts from the sensor window and acts on the prediction;    *)
(* start_walking starts a daemon thread that runs walk_loop.  task is the   *)
(* sequence of the walk_loop threads started so far, each with its position *)
(* ("check": before the test of stop_walking_event, "pressed": asleep with  *)
(* its key down, "done") and the key it was started for.  stop_event is     *)
(* stop_walking_event; history is the recognizer's prediction_history.      *)
(* Time is counted in units of 100 ms.                                      *)
(* ------------------------------------------------------------------------ *)

GESTURE_NAMES == {"jump", "punch", "turn", "walk", "noise"}
CONFIDENCE_THRESHOLD == 80
WALK_CONFIDENCE == 50
PREDICTION_HISTORY_SIZE == 3
CONSECUTIVE_PREDICTIONS_REQUIRED == 2
V3_COOLDOWNS == [jump |-> 5, attack |-> 3, turn |-> 8]
\* confidences (in percent) below and above the two thresholds
V3Confidences == {40, 60, 90}
\* the predictions a run draws from; jump is handled as punch is, with its
\* own key and cooldown
V3Gestures == GESTURE_NAMES \ {"jump"}
\* the most walk_loop threads a run starts, and how far its clock advances
MaxThreads == 2
V3Ticks == 3

\* the state a prediction of the main loop works on
V3State ==
    [held |-> held, ev |-> <<>>, iw |-> is_walking, fd |-> facing_direction,
     lat |-> last_action_time, se |-> stop_event, threads |-> task]

V3Tap(m, k) == KbRelease(KbPress(m, k), k)

\* start_walking(direction, key_map)
start_walking(m, direction) ==
    IF m.iw THEN m
    ELSE [m EXCEPT !.iw = TRUE, !.se = FALSE,
                   !.threads = Append(@, [pc |-> "check", key |-> direction])]

stop_walking(m) ==
    IF m.iw THEN [m EXCEPT !.se = TRUE, !.iw = FALSE] ELSE m

execute_gesture(m, gesture, t) ==
    LET action == IF gesture = "punch" THEN "attack" ELSE gesture
        Stamp(m1) ==
            [m1 EXCEPT !.lat = [a \in DOMAIN m.lat \cup {action} |->
                                  IF a = action THEN t ELSE m.lat[a]]]
    IN  IF gesture = "noise" THEN m
        ELSE IF /\ action \in DOMAIN m.lat
                /\ action \in DOMAIN V3_COOLDOWNS
                /\ t - m.lat[action] < V3_COOLDOWNS[action]
        THEN m
        ELSE IF action \in {"jump", "attack"} THEN Stamp(V3Tap(m, action))
        ELSE IF action = "turn"
        THEN Stamp(V3Tap([m EXCEPT !.fd = Flip(@)], Flip(m.fd)))
        ELSE IF ~m.iw THEN start_walking(m, m.fd) ELSE m

\* get_smoothed_prediction on the history that already holds the gesture
Smoothed(h, gesture) ==
    /\ Len(h) >= CONSECUTIVE_PREDICTIONS_REQUIRED
    /\ \A i \in (Len(h) - CONSECUTIVE_PREDICTIONS_REQUIRED + 1)..Len(h) :
          h[i] = gesture

v3Rest == <<ctl, queues, pressed_keys, last_walk_confirmation, walk_confirmed,
            fired_at, current_action, feedVars>>

\* one prediction of the main loop and what it leads to
V3Predict(gesture, confidence) ==
    /\ ctl = "v3"
    /\ pc = "main_loop"
    /\ LET h == DequeAppend(history, gesture, PREDICTION_HISTORY_SIZE)
           m == V3State
           m1 == IF Smoothed(h, gesture) /\ confidence >= CONFIDENCE_THRESHOLD
                 THEN execute_gesture(m, gesture, now)
                 ELSE IF gesture = "walk" /\ confidence >= WALK_CONFIDENCE
                 THEN IF ~m.iw THEN start_walking(m, m.fd) ELSE m
                 ELSE IF gesture # "walk" /\ m.iw THEN stop_walking(m)
                 ELSE m
       IN  /\ Len(m1.threads) <= MaxThreads
           /\ history' = h
           /\ latest_gesture' = gesture
           /\ held' = m1.held
           /\ events' = m1.ev
           /\ is_walking' = m1.iw
           /\ facing_direction' = m1.fd
           /\ last_action_time' = m1.lat
           /\ stop_event' = m1.se
           /\ task' = m1.threads
    /\ UNCHANGED <<now, pc, v3Rest>>

V3Prediction ==
    \E gesture \in V3Gestures, confidence \in V3Confidences :
        V3Predict(gesture, confidence)

\* one turn of a walk_loop thread: the test of the event and the press, or
\* the release after the first sleep
walk_loop(w) ==
    /\ ctl = "v3"
    /\ pc = "main_loop"
    /\ w \in DOMAIN task
    /\ task[w].pc # "done"
    /\ LET m == V3State
           m1 == IF task[w].pc = "pressed" THEN KbRelease(m, task[w].key)
                 ELSE IF stop_event THEN m
                 ELSE KbPress(m, task[w].key)
           at == IF task[w].pc = "pressed" THEN "check"
                 ELSE IF stop_event THEN "done"
                 ELSE "pressed"
       IN  /\ held' = m1.held
           /\ events' = m1.ev
           /\ task' = [task EXCEPT ![w].pc = at]
    /\ UNCHANGED <<now, pc, stop_event, is_walking, facing_direction,
                   last_action_time, latest_gesture, history, v3Rest>>

WalkLoop == \E w \in 1..MaxThreads : walk_loop(w)

V3Tick ==
    /\ ctl = "v3"
    /\ pc = "main_loop"
    /\ now < StartTime + V3Ticks
    /\ now' = now + 1
    /\ events' = <<>>
    /\ UNCHANGED <<pc, task, stop_event, is_walking, facing_direction,
                   last_action_time, latest_gesture, history, held, v3Rest>>

\* KeyboardInterrupt, then the finally block; the daemon threads end with
\* the process wherever they are
V3Interrupt ==
    /\ ctl = "v3"
    /\ pc = "main_loop"
    /\ pc' = "stopped"
    /\ stop_event' = stop_walking(V3State).se
    /\ is_walking' = FALSE
    /\ task' = [w \in DOMAIN task |-> [task[w] EXCEPT !.pc = "done"]]
    /\ events' = <<>>
    /\ UNCHANGED <<now, facing_direction, last_action_time, latest_gesture,
                   history, held, v3Rest>>

InitV3 ==
    /\ ctl = "v3"
    /\ now = StartTime
    /\ pc = "main_loop"
    /\ task = <<>>
    /\ stop_event = FALSE
    /\ queues = <<>>
    /\ is_walking = FALSE
    /\ facing_direction = "right"
    /\ pressed_keys = {}
    /\ last_action_time = <<>>
    /\ last_walk_confirmation = 0
    /\ walk_confirmed = FALSE
    /\ latest_gesture = "none"
    /\ fired_at = <<>>
    /\ held = {}
    /\ events = <<>>
    /\ history = <<>>
    /\ current_action = "idle"
    /\ NoFeed

NextV3 ==
    \/ V3Prediction
    \/ WalkLoop
    \/ V3Tick
    \/ V3Interrupt

SpecV3 == InitV3 /\ [][NextV3]_vars

\* the walk_loop threads that have not ended
WalkLoops == {w \in DOMAIN task : task[w].pc # "done"}

\* C29: at most one walk_loop thread is in its pressing loop: while
\* stop_walking_event is clear at most one thread has not ended
C29_OneWalkLoop ==
    (ctl = "v3" /\ ~stop_event) => Cardinality(WalkLoops) <= 1

\* C30: in the async controller every jump or punch the actor takes off the
\* action result queue is executed (its key is pressed) or rejected by its
\* cooldown, whatever was queued after it before the actor's tick
C30_NoConfirmedActionLost ==
    [][\A qa \in Drained(MULTI_CLASSES) :
          HandleActionStep(qa) =>
              \A i \in 1..Len(qa) :
                  qa[i] \in {"jump", "punch"} =>
                      \/ \E j \in 1..Len(events') :
                            /\ events'[j].op = "press"
                            /\ events'[j].key = ActionKey(qa[i])
                      \/ ~(now - last_action_time[qa[i]] > ACTION_COOLDOWN)]_vars

\* C31: once the walk-fuel controller has shut down, a walker thread that was
\* started has been signalled and joined: no walker thread is left and no
\* direction key is down, also when the shutdown came before the walker
\* thread set is_walking
C31_ShutdownJoinsWalker ==
    (ctl = "hybrid" /\ pc = "exited") =>
        /\ walking_thread = "None"
        /\ held \cap Directions = {}

\* the three actuators that apply a cooldown to a confirmed jump or punch:
\* the async actor, the parallel actor and the ExecutionArbitrator
InitActuators == Init \/ InitParallel \/ InitArbitrator
NextActuators == Next \/ NextParallel \/ NextArbitrator
SpecActuators == InitActuators /\ [][NextActuators]_vars

\* the step in which an actuator handles a confirmed jump or punch that
\* arrives less than the cooldown after the recorded time of its last firing
SuppressedAction ==
    \/ /\ ctl = "async"
       /\ pc = "handle_action" /\ pc' = "handle_locomotion"
       /\ latest_gesture' \in {"jump", "punch"}
       /\ now - last_action_time[latest_gesture'] < ACTION_COOLDOWN
    \/ /\ ctl = "parallel"
       /\ pc = "action" /\ pc' = "loco"
       /\ latest_gesture' \in {"jump", "punch"}
       /\ LET h == DequeAppend(history["action"], latest_gesture',
                               PAR_CONFIDENCE_GATING_COUNT)
          IN  Consensus(h, PAR_CONFIDENCE_GATING_COUNT)
       /\ now - last_action_time[latest_gesture'] < PAR_ACTION_COOLDOWN
    \/ /\ ctl = "arbitrator"
       /\ pc = "main_loop" /\ pc' # "main_loop"
       /\ latest_gesture' \in {"jump", "attack"}
       /\ now - last_action_time[latest_gesture'] < REFLEX_COOLDOWN

\* C32: a confirmed jump or punch that arrives within its cooldown is a
\* no-op: the step issues no key event and leaves is_walking,
\* facing_direction, the held keys and last_action_time as they were
C32_SuppressedActionIsNoOp ==
    [][SuppressedAction =>
          /\ events' = <<>>
          /\ is_walking' = is_walking
          /\ facing_direction' = facing_direction
          /\ held' = held
          /\ pressed_keys' = pressed_keys
          /\ last_action_time' = last_action_time]_vars

\* C32's case: the async actor has just ignored a jump within the cooldown
\* of an earlier jump, and is still walking with its direction key down
C32_Witness ==
    /\ ctl = "async" /\ pc = "handle_locomotion"
    /\ latest_gesture = "jump"
    /\ events = <<>>
    /\ last_action_time["jump"] > 0
    /\ now - last_action_time["jump"] < ACTION_COOLDOWN
    /\ is_walking /\ held \cap Directions # {}

\* C33: only predictions that meet the confidence threshold count toward
\* consensus: a prediction below the threshold leaves the consensus history
\* as it was, so every prediction of a confirming run met the threshold
C33_OnlyConfidentCount ==
    [][\A gesture \in V3Gestures, confidence \in V3Confidences :
          (V3Predict(gesture, confidence) /\ confidence < CONFIDENCE_THRESHOLD)
              => history' = history]_vars

\* C34: in the async actor a walk confirmation received while walking resets
\* the walk timeout (last_walk_confirmation becomes the time of the step and
\* walking goes on); when the actor is walking and the last confirmation lies
\* more than WALK_TIMEOUT back, the step clears is_walking and releases every
\* held direction key
C34_WalkTimeout ==
    [][(ctl = "async" /\ pc = "walk_timeout" /\ pc' = "handle_action") =>
          /\ (is_walking /\ walk_confirmed) =>
                /\ last_walk_confirmation' = now
                /\ is_walking'
                /\ events' = <<>>
          /\ (/\ is_walking /\ ~walk_confirmed
              /\ now - last_walk_confirmation > WALK_TIMEOUT) =>
                /\ ~is_walking'
                /\ held \cap Directions # {}
                /\ held' \cap Directions = {}
                /\ \A i \in 1..Len(events') :
                      events'[i].op = "release" /\ events'[i].key \in Directions]_vars

\* C34's case: the timeout has just fired and released the direction key
C34_Witness ==
    /\ ctl = "async" /\ pc = "handle_action"
    /\ ~is_walking
    /\ now - last_walk_confirmation > WALK_TIMEOUT
    /\ Len(events) = 1 /\ events[1].op = "release"
    /\ events[1].key \in Directions
    /\ held = {}

\* C35: on the walk/idle stream only transitions are acted on: the step that
\* handles a confirmation of the label that was confirmed last issues no key
\* press or release
C35_OnlyTransitionsEmitted ==
    [][/\ (/\ ctl = "async"
           /\ pc = "handle_locomotion" /\ pc' = "walk_timeout"
           /\ latest_gesture' \in BINARY_CLASSES
           /\ latest_gesture' = current_action)
            => events' = <<>>
       /\ (/\ ctl = "parallel"
           /\ pc = "loco" /\ pc' = "action"
           /\ latest_gesture' # "empty"
           /\ Consensus(history'["loco"], PAR_CONFIDENCE_GATING_COUNT)
           /\ history'["loco"][1] = current_action)
            => events' = <<>>]_vars

\* C36: in the hybrid controller's loop a datagram that is rejected as
\* malformed (not JSON, or a field missing) leaves last_known_orientation,
\* orientation_history and the ML sensor_buffer as they were
C36_MalformedLeavesState ==
    [][\A packet \in MalformedPackets, outcome \in MLOutcomes \cup {"none"},
          walker_first \in BOOLEAN :
          HybridPacket(packet, outcome, walker_first) =>
              /\ last_known_orientation' = last_known_orientation
              /\ orientation_history' = orientation_history
              /\ sensor_buffer' = sensor_buffer]_vars

\* the loop handles a rotation_vector datagram and detects a stable turn:
\* only then is a filled orientation_history cleared
StableTurnDetected ==
    /\ ctl = "hybrid"
    /\ pc = "recvfrom" /\ pc' = "recvfrom"
    /\ latest_gesture' = "rotation_vector"
    /\ orientation_history # <<>>
    /\ orientation_history' = <<>>

\* C37: in the walk-fuel controller a detected stable turn never increases
\* walk_fuel_seconds, so a turn detected while idle with empty fuel leaves the
\* fuel empty and starts no walking
C37_TurnAddsNoFuel ==
    [][StableTurnDetected => walk_fuel_seconds' <= walk_fuel_seconds]_vars

\* C38: in the async actor pressed_keys mirrors the keyboard: between two
\* steps of the running actor a direction is in pressed_keys exactly when its
\* key is down, and the jump and attack keys are not down
C38_PressedKeysMirror ==
    (ctl = "async" /\ task["actor"] = "running") =>
        /\ pressed_keys = held \cap Directions
        /\ held \cap {"jump", "attack"} = {}
        /\ \A i \in 1..Len(events) :
              events[i].op = "press" =>
                  \/ events[i].key \in pressed_keys
                  \/ \E j \in (i + 1)..Len(events) :
                        events[j].op = "release" /\ events[j].key = events[i].key

\* C38's case: after an earlier jump the actor walks left, the turn having
\* swapped the keys, with left alone in pressed_keys and on the keyboard
C38_Witness ==
    /\ ctl = "async" /\ task["actor"] = "running"
    /\ pc = "handle_locomotion"
    /\ latest_gesture = "turn_left"
    /\ Len(events) = 2
    /\ pressed_keys = {"left"}
    /\ held = {"left"}
    /\ last_action_time["jump"] > 0

====
